---- MODULE Spec2Model ----
(***************************************************************************)
(* Model of swarm's session monitoring and lifecycle reconciliation:       *)
(* the status classifier (detection.rs), the reconciliation pass and the   *)
(* orphan garbage collection (main.rs: collect_sessions, cleanup_orphans), *)
(* the registry listing (tmux.rs: list_sessions) and the notification      *)
(* dispatch of the TUI loop (main.rs: run_tui).                            *)
(*                                                                         *)
(* Text is modelled as sequences of tokens: a line of terminal output is a *)
(* sequence of text fragments, a session or file name is a sequence of     *)
(* name fragments ("swarm-" prefix, stem, ".log" suffix).  Durations are   *)
(* whole seconds.  An Option<T> is the empty sequence (None) or a one      *)
(* element sequence (Some).                                                *)
(***************************************************************************)
EXTENDS Integers, Sequences, FiniteSets, TLC

VARIABLES
    \* ---- classifier harness (detect_status applied to drawn inputs)
    lines,          \* the line window handed to detect_status
    age,            \* Option<Duration>: <<>> or <<seconds>>
    status,         \* Option<AgentStatus>: <<>> before the call, <<s>> after
    \* ---- the environment: session host and file system
    hostSessions,   \* names of the sessions alive on the session host
    logFiles,       \* names of the files in cfg.general.logs_dir
    store,          \* names of the entries of session_store_dir()
    \* ---- the TUI process (run_tui)
    pc,             \* "start" before run_tui's first pass, "loop", or "exit"
    notifications_enabled,  \* cfg.notifications.enabled
    sessions,       \* the session view: sequence of [session_name, status]
    prev_status,    \* last observed status, a function on the names seen
    fired,          \* alerts fired by the latest pass of the TUI
    \* ---- history of the latest reconciliation pass
    lastGc,         \* who ran it, its live list, what it deleted
    \* ---- history of the statuses the dispatcher saw for one session
    exampleRun,     \* progress along ExampleStatuses and the alerts counted
    \* ---- the session host's coordination artifact and the registry harness
    socket,         \* whether the host's default socket file exists
    lastCall,       \* the latest registry call of the harness and its result
    \* ---- the key handling of the TUI (run_tui)
    selected,       \* index of the selected session, counted from 0
    showing_tasks,  \* the tasks view is shown instead of the agents view
    confirm_kill_mode,      \* the kill confirmation is open
    pending_kill_session,   \* Option<String>: the session to kill
    new_agent_mode, \* the "name your work" prompt is open
    send_input_mode,        \* the send-input prompt is open
    \* ---- history of the key handling
    lastKey,        \* the latest key handled and what its handler did
    request,        \* the latest kill request and the Esc presses since
    \* ---- the background update (auto_update_on_startup) of the processes
    now,            \* the system clock, in seconds
    last_check_file,    \* ~/.swarm/.last-update-check: Option of its mtime
    just_updated_file,  \* ~/.swarm/.just-updated: Option of its content
    procs,          \* per process: where it is and what its startup returned
    lastUpd,        \* history of the update checks and of the marker reads
    \* ---- the control flow of the main loop (run_tui)
    loop,           \* the modes, the time since last_refresh, the last turn
    \* ---- the inbox storage (inbox/storage.rs)
    inbox,          \* the files of the inbox directory: id -> item or garbage
    \* ---- the content of the session store and of the logs, and handle_new
    meta,           \* per entry of the session store: its agent, task, yolo
    logText,        \* per session whose log file exists: the lines of the log
    newProc,        \* the process running handle_new: where it is, its inputs
    \* ---- the refresh of the main loop (run_tui) and the tasks directory
    taskFiles,      \* the files of cfg.general.tasks_dir
    tasks,          \* the task list: what load_tasks returned last
    cached_preview, \* Option<(String, Vec<String>)>: session name and lines
    last_refresh    \* the time of the latest refresh, on the clock `now`

detectVars == <<lines, age, status>>
envVars == <<hostSessions, logFiles, store>>
tuiVars == <<pc, notifications_enabled, sessions, prev_status, fired>>

callVars == <<socket, lastCall>>
keyVars == <<selected, showing_tasks, confirm_kill_mode, pending_kill_session,
             new_agent_mode, send_input_mode, lastKey, request>>
updVars == <<now, last_check_file, just_updated_file, procs, lastUpd>>
createVars == <<meta, logText, newProc>>
refreshVars == <<taskFiles, tasks, cached_preview, last_refresh>>
sideVars == <<updVars, loop, inbox, createVars, refreshVars>>

vars == <<lines, age, status, hostSessions, logFiles, store,
          pc, notifications_enabled, sessions, prev_status, fired, lastGc,
          exampleRun, socket, lastCall, selected, showing_tasks,
          confirm_kill_mode, pending_kill_session, new_agent_mode,
          send_input_mode, lastKey, request,
          now, last_check_file, just_updated_file, procs, lastUpd, loop,
          inbox, meta, logText, newProc,
          taskFiles, tasks, cached_preview, last_refresh>>

----------------------------------------------------------------------------
(* Bounds *)

MaxLines == 2
MaxAge == 31

----------------------------------------------------------------------------
(* Option values *)

None == <<>>
Some(v) == <<v>>
IsSome(o) == Len(o) = 1
Unwrap(o) == o[1]

----------------------------------------------------------------------------
(* model.rs: AgentStatus *)

AgentStatus == {"NeedsInput", "Running", "Idle", "Done", "Unknown"}

----------------------------------------------------------------------------
(* detection.rs *)

NEEDS_INPUT_SENTINEL == "/swarm:needs_input"
DONE_SENTINEL == "/swarm:done"

\* A text fragment `tok` contains the literal `lit` as a substring.  Fragments
\* are atomic except that the needs-input sentinel ends in "input".
FragmentContains(tok, lit) ==
    \/ tok = lit
    \/ tok = NEEDS_INPUT_SENTINEL /\ lit = "input"

\* str::contains on a line
contains(l, lit) == \E i \in 1..Len(l) : FragmentContains(l[i], lit)

\* Regex::is_match for the three shapes of pattern the configuration uses:
\* a literal, `a.*b` (a, then anything on the same line, then b) and `^a`.
is_match(re, l) ==
    CASE re.kind = "literal" -> contains(l, re.a)
      [] re.kind = "then" ->
            \E i \in 1..Len(l) : \E j \in (i + 1)..Len(l) :
                FragmentContains(l[i], re.a) /\ FragmentContains(l[j], re.b)
      [] re.kind = "anchored" -> Len(l) >= 1 /\ l[1] = re.a

Literal(s) == [kind |-> "literal", a |-> s, b |-> ""]
Then(s, t) == [kind |-> "then", a |-> s, b |-> t]
Anchored(s) == [kind |-> "anchored", a |-> s, b |-> ""]

detection_for_agent(agent) ==
    [ needs_input_patterns |->
        << Literal("[Y/n]"),
           Literal("[y/N]"),
           Literal("(y/N)"),
           Literal("(Y/n)"),
           Literal("Do you want to proceed"),
           Literal("Should I proceed"),
           Literal("Would you like me to"),
           Literal("Press enter to continue"),
           Then("waiting for", "input"),
           Anchored("? "),
           Then("Enter to select", "Tab/Arrow"),
           Literal("Type your answer") >>,
      running_threshold |-> 5,
      idle_threshold |-> 30 ]

MatchesAnyPattern(detection, l) ==
    \E k \in 1..Len(detection.needs_input_patterns) :
        is_match(detection.needs_input_patterns[k], l)

\* Variants of detect_status, each with one plausible slip.
detect_status_done_first(ls, detection, a) ==
    IF \E i \in 1..Len(ls) : contains(ls[i], DONE_SENTINEL)
    THEN "Done"
    ELSE IF \E i \in 1..Len(ls) : contains(ls[i], NEEDS_INPUT_SENTINEL)
    THEN "NeedsInput"
    ELSE IF \E i \in 1..Len(ls) : MatchesAnyPattern(detection, ls[i])
    THEN "NeedsInput"
    ELSE IF IsSome(a)
    THEN IF Unwrap(a) <= detection.running_threshold
         THEN "Running"
         ELSE "Idle"
    ELSE "Unknown"

detect_status_prompt_before_done(ls, detection, a) ==
    IF \E i \in 1..Len(ls) : contains(ls[i], NEEDS_INPUT_SENTINEL)
    THEN "NeedsInput"
    ELSE IF \E i \in 1..Len(ls) : MatchesAnyPattern(detection, ls[i])
    THEN "NeedsInput"
    ELSE IF \E i \in 1..Len(ls) : contains(ls[i], DONE_SENTINEL)
    THEN "Done"
    ELSE IF IsSome(a)
    THEN IF Unwrap(a) <= detection.running_threshold
         THEN "Running"
         ELSE "Idle"
    ELSE "Unknown"

detect_status_stale_before_prompt(ls, detection, a) ==
    IF \E i \in 1..Len(ls) : contains(ls[i], NEEDS_INPUT_SENTINEL)
    THEN "NeedsInput"
    ELSE IF \E i \in 1..Len(ls) : contains(ls[i], DONE_SENTINEL)
    THEN "Done"
    ELSE IF IsSome(a) /\ Unwrap(a) > detection.idle_threshold
    THEN "Idle"
    ELSE IF \E i \in 1..Len(ls) : MatchesAnyPattern(detection, ls[i])
    THEN "NeedsInput"
    ELSE IF IsSome(a)
    THEN IF Unwrap(a) <= detection.running_threshold
         THEN "Running"
         ELSE "Idle"
    ELSE "Unknown"

detect_status_strict_running(ls, detection, a) ==
    IF \E i \in 1..Len(ls) : contains(ls[i], NEEDS_INPUT_SENTINEL)
    THEN "NeedsInput"
    ELSE IF \E i \in 1..Len(ls) : contains(ls[i], DONE_SENTINEL)
    THEN "Done"
    ELSE IF \E i \in 1..Len(ls) : MatchesAnyPattern(detection, ls[i])
    THEN "NeedsInput"
    ELSE IF IsSome(a)
    THEN IF Unwrap(a) < detection.running_threshold
         THEN "Running"
         ELSE "Idle"
    ELSE "Unknown"

detect_status_stale_unknown(ls, detection, a) ==
    IF \E i \in 1..Len(ls) : contains(ls[i], NEEDS_INPUT_SENTINEL)
    THEN "NeedsInput"
    ELSE IF \E i \in 1..Len(ls) : contains(ls[i], DONE_SENTINEL)
    THEN "Done"
    ELSE IF \E i \in 1..Len(ls) : MatchesAnyPattern(detection, ls[i])
    THEN "NeedsInput"
    ELSE IF IsSome(a)
    THEN IF Unwrap(a) <= detection.running_threshold
         THEN "Running"
         ELSE IF Unwrap(a) <= detection.idle_threshold
         THEN "Idle"
         ELSE "Unknown"
    ELSE "Unknown"

detect_status(ls, detection, a) ==
    IF \E i \in 1..Len(ls) : contains(ls[i], NEEDS_INPUT_SENTINEL)
    THEN "NeedsInput"
    ELSE IF \E i \in 1..Len(ls) : contains(ls[i], DONE_SENTINEL)
    THEN "Done"
    ELSE IF \E i \in 1..Len(ls) : MatchesAnyPattern(detection, ls[i])
    THEN "NeedsInput"
    ELSE IF IsSome(a)
    THEN IF Unwrap(a) <= detection.running_threshold
         THEN "Running"
         ELSE IF Unwrap(a) <= detection.idle_threshold
         THEN "Idle"
         ELSE "Idle"
    ELSE "Unknown"

----------------------------------------------------------------------------
(* Names: sessions on the host, files in the logs directory, entries of the *)
(* session store.  A name is a sequence of fragments.                       *)

SWARM_PREFIX == "swarm-"
LOG_SUFFIX == ".log"

Range(f) == {f[i] : i \in DOMAIN f}

\* The elements of a finite set in some order.
RECURSIVE SetToSeq(_)
SetToSeq(S) ==
    IF S = {} THEN <<>>
    ELSE LET x == CHOOSE y \in S : TRUE
         IN  <<x>> \o SetToSeq(S \ {x})

\* The stems of the swarm sessions, in the order the host lists them.
StemNames == <<"a", "b">>
Stems == Range(StemNames)

\* Session names the host can report: the swarm sessions and a session that
\* does not belong to swarm.  The host never reports a name holding a dot.
SwarmNames == {<<SWARM_PREFIX, st>> : st \in Stems}
ForeignNames == {<<"work">>}
HostNames == SwarmNames \cup ForeignNames

\* A file in the logs directory that is not a session log.
ForeignLogFiles == {<<"notes", LOG_SUFFIX>>}

starts_with(name, p) == Len(name) >= 1 /\ name[1] = p
ends_with(name, sfx) == Len(name) >= 1 /\ name[Len(name)] = sfx

RECURSIVE trim_end_matches(_, _)
trim_end_matches(name, sfx) ==
    IF ends_with(name, sfx)
    THEN trim_end_matches(SubSeq(name, 1, Len(name) - 1), sfx)
    ELSE name

RECURSIVE trim_start_matches(_, _)
trim_start_matches(name, p) ==
    IF starts_with(name, p)
    THEN trim_start_matches(Tail(name), p)
    ELSE name

\* format!("{session}.log")
LogFileName(session) == Append(session, LOG_SUFFIX)

SessionLogFiles(S) == {LogFileName(n) : n \in S}

\* The order in which the host lists its sessions (by name).
NameRank(n) ==
    IF n \in ForeignNames THEN Len(StemNames) + 1
    ELSE CHOOSE i \in 1..Len(StemNames) : StemNames[i] = n[2]

RECURSIVE HostListing(_)
HostListing(S) ==
    IF S = {} THEN <<>>
    ELSE LET first == CHOOSE n \in S : \A m \in S : NameRank(n) <= NameRank(m)
         IN  <<first>> \o HostListing(S \ {first})

----------------------------------------------------------------------------
(* tmux.rs: list_sessions *)

\* A variant of list_sessions that loses the last line of the listing.
list_sessions_drop_last(spawned, host) ==
    LET kept == SelectSeq(HostListing(host),
                          LAMBDA n : starts_with(n, SWARM_PREFIX))
    IN  IF ~spawned THEN [ok |-> FALSE, sessions |-> <<>>]
        ELSE [ok |-> TRUE, sessions |-> SubSeq(kept, 1, Len(kept) - 1)]

\* `spawned`: whether the host binary could be executed.  The host's list
\* command exits with a failure status when no server (no session) is alive.
list_sessions(spawned, host) ==
    IF ~spawned THEN [ok |-> FALSE, sessions |-> <<>>]
    ELSE IF host = {} THEN [ok |-> TRUE, sessions |-> <<>>]
    ELSE [ok |-> TRUE,
          sessions |-> SelectSeq(HostListing(host),
                                 LAMBDA n : starts_with(n, SWARM_PREFIX))]

\* ensure_pipe: `attached` is whether one of the attach attempts succeeded;
\* a successful attach starts `cat >> log_path`, which creates the file.
ensure_pipe(session, attached, logs) ==
    IF attached THEN logs \cup {LogFileName(session)} ELSE logs

----------------------------------------------------------------------------
(* main.rs: cleanup_orphans *)

IsSessionLogName(f) == starts_with(f, SWARM_PREFIX) /\ ends_with(f, LOG_SUFFIX)

\* Variants of cleanup_orphans: one compares the file name, suffix and all,
\* with the live names; one forgets the session store.
cleanup_orphans_untrimmed(active, logs, entries) ==
    LET activeSet == Range(active)
        delLogs == {f \in logs : IsSessionLogName(f) /\ f \notin activeSet}
        delStore == {e \in entries : e \notin activeSet}
    IN  [logs |-> logs \ delLogs, store |-> entries \ delStore,
         delLogs |-> delLogs, delStore |-> delStore]

cleanup_orphans_logs_only(active, logs, entries) ==
    LET activeSet == Range(active)
        delLogs == {f \in logs : IsSessionLogName(f)
                        /\ trim_end_matches(f, LOG_SUFFIX) \notin activeSet}
    IN  [logs |-> logs \ delLogs, store |-> entries,
         delLogs |-> delLogs, delStore |-> {}]

cleanup_orphans(active, logs, entries) ==
    LET activeSet == Range(active)
        delLogs == {f \in logs : IsSessionLogName(f)
                        /\ trim_end_matches(f, LOG_SUFFIX) \notin activeSet}
        delStore == {e \in entries : e \notin activeSet}
    IN  [logs |-> logs \ delLogs, store |-> entries \ delStore,
         delLogs |-> delLogs, delStore |-> delStore]

----------------------------------------------------------------------------
(* main.rs: collect_sessions *)

\* What a session shows at the time of a pass: the tail of its log, the age
\* of the log file's modification time, the age of the pane's last use.
Observations ==
    { [lines |-> << <<"text">> >>, log_age |-> 0, pane_age |-> None],
      [lines |-> << <<"text", "/swarm:needs_input">> >>, log_age |-> 0,
       pane_age |-> None],
      [lines |-> << <<"/swarm:done", "text">>, <<"text">> >>, log_age |-> 6,
       pane_age |-> Some(6)],
      [lines |-> << <<"text">> >>, log_age |-> 6, pane_age |-> Some(0)] }

\* latest_output_time(&log_path).or_else(|| pane_last_used(&session)), as an age
OutputAge(hasLog, o) == IF hasLog THEN Some(o.log_age) ELSE o.pane_age

\* tail_lines(&log_path, 80).unwrap_or_default()
TailLines(hasLog, o) == IF hasLog THEN o.lines ELSE <<>>

\* One pass.  `env` holds what the environment answers during the pass:
\*   spawned  - the host binary could be executed for the listing
\*   attached - per session, whether ensure_pipe succeeded
\*   obs      - per session, what the session shows
\*   failAt   - 0, or the index of the session whose task lookup fails
\*              (task_info_for_session(&session)? returns the error)
\*   failBy   - why it fails: "store", the session's directory in the
\*              session store cannot be created (session_task_path), or
\*              "host", the host binary cannot be run (session_path)

\* The sessions whose directory in the session store the pass creates or
\* finds: agent_for_session and task_info_for_session call create_dir_all.
StoreTouched(active, env) ==
    {active[i] : i \in {j \in 1..Len(active) :
                            \/ env.failAt = 0
                            \/ j < env.failAt
                            \/ j = env.failAt /\ env.failBy = "host"}}

\* The session whose record in the session store could not be opened.
Unreadable(active, env) ==
    IF env.failAt # 0 /\ env.failBy = "store" THEN {active[env.failAt]} ELSE {}

\* A variant of the pass that leaves a session out of the view when its
\* attach failed.
CollectFrom_drop_unattached(listed, gc, logs, entries, env) ==
    LET active == listed.sessions
        reached == IF env.failAt = 0 THEN 1..Len(active) ELSE 1..env.failAt
        piped == {active[i] : i \in {j \in reached : env.attached[active[j]]}}
        logsAfter == gc.logs \cup {LogFileName(n) : n \in piped}
        storeAfter == gc.store \cup StoreTouched(active, env)
        entry(i) ==
            LET n == active[i]
                hasLog == LogFileName(n) \in logsAfter
                agent == "claude"
            IN  [session_name |-> n,
                 status |-> detect_status(TailLines(hasLog, env.obs[n]),
                                          detection_for_agent(agent),
                                          OutputAge(hasLog, env.obs[n]))]
    IN  IF ~listed.ok
        THEN [ok |-> FALSE, listed |-> FALSE, active |-> <<>>, out |-> <<>>,
              logs |-> logs, store |-> entries,
              delLogs |-> {}, delStore |-> {}, unreadable |-> {}]
        ELSE [ok |-> env.failAt = 0, listed |-> TRUE, active |-> active,
              out |-> IF env.failAt = 0
                      THEN SelectSeq([i \in 1..Len(active) |-> entry(i)],
                                     LAMBDA e : env.attached[e.session_name])
                      ELSE <<>>,
              logs |-> logsAfter, store |-> storeAfter,
              delLogs |-> gc.delLogs, delStore |-> gc.delStore,
              unreadable |-> Unreadable(active, env)]

\* for session in sessions { ... out.push(AgentSession { ... }) }
CollectFrom(listed, gc, logs, entries, env) ==
    LET active == listed.sessions
        reached == IF env.failAt = 0 THEN 1..Len(active) ELSE 1..env.failAt
        piped == {active[i] : i \in {j \in reached : env.attached[active[j]]}}
        logsAfter == gc.logs \cup {LogFileName(n) : n \in piped}
        storeAfter == gc.store \cup StoreTouched(active, env)
        entry(i) ==
            LET n == active[i]
                hasLog == LogFileName(n) \in logsAfter
                agent == "claude"
            IN  [session_name |-> n,
                 status |-> detect_status(TailLines(hasLog, env.obs[n]),
                                          detection_for_agent(agent),
                                          OutputAge(hasLog, env.obs[n]))]
    IN  IF ~listed.ok
        THEN [ok |-> FALSE, listed |-> FALSE, active |-> <<>>, out |-> <<>>,
              logs |-> logs, store |-> entries,
              delLogs |-> {}, delStore |-> {}, unreadable |-> {}]
        ELSE [ok |-> env.failAt = 0, listed |-> TRUE, active |-> active,
              out |-> IF env.failAt = 0
                      THEN [i \in 1..Len(active) |-> entry(i)]
                      ELSE <<>>,
              logs |-> logsAfter, store |-> storeAfter,
              delLogs |-> gc.delLogs, delStore |-> gc.delStore,
              unreadable |-> Unreadable(active, env)]

\* A variant of collect_sessions that returns early, before the cleanup,
\* when the listing is empty.
collect_sessions_skip_gc_when_empty(host, logs, entries, env) ==
    LET listed == list_sessions(env.spawned, host)
        gc == IF listed.sessions = <<>>
              THEN [logs |-> logs, store |-> entries,
                    delLogs |-> {}, delStore |-> {}]
              ELSE cleanup_orphans(listed.sessions, logs, entries)
    IN  CollectFrom(listed, gc, logs, entries, env)

\* A variant of collect_sessions that cleans up even when the listing failed.
collect_sessions_gc_on_error(host, logs, entries, env) ==
    LET listed == list_sessions(env.spawned, host)
        gc == cleanup_orphans(listed.sessions, logs, entries)
    IN  IF ~listed.ok
        THEN [ok |-> FALSE, listed |-> FALSE, active |-> <<>>, out |-> <<>>,
              logs |-> gc.logs, store |-> gc.store,
              delLogs |-> gc.delLogs, delStore |-> gc.delStore,
              unreadable |-> {}]
        ELSE CollectFrom(listed, gc, logs, entries, env)

collect_sessions(host, logs, entries, env) ==
    LET listed == list_sessions(env.spawned, host)
        gc == cleanup_orphans(listed.sessions, logs, entries)
    IN  CollectFrom(listed, gc, logs, entries, env)

\* The answers the environment can give during a pass over `host`: the
\* listing cannot be run; or it runs and every session is processed; or it
\* runs and the task lookup of session number failAt fails.
PassEnvsOver(host, observed) ==
    LET names == host \cap SwarmNames
        anyObs == CHOOSE o \in Observations : TRUE
        idle == [n \in names |-> anyObs]
    IN  { [spawned |-> FALSE, attached |-> [n \in names |-> FALSE],
           obs |-> idle, failAt |-> 0, failBy |-> "none"] }
        \cup
        { [spawned |-> TRUE, attached |-> at, obs |-> ob, failAt |-> 0,
           failBy |-> "none"] :
            at \in [names -> BOOLEAN], ob \in [names -> observed] }
        \cup
        { [spawned |-> TRUE, attached |-> at, obs |-> idle, failAt |-> fa,
           failBy |-> by] :
            at \in [names -> BOOLEAN], fa \in 1..Cardinality(names),
            by \in {"store", "host"} }

PassEnvs(host) == PassEnvsOver(host, Observations)

\* The same answers when every pane shows the same output: what the keys
\* of the TUI do does not depend on the statuses in the view.
QuietObservations == {CHOOSE o \in Observations : TRUE}

\* The record kept of the latest pass until another actor acts: who ran it,
\* the live list it worked from, what it deleted, and whether the pass right
\* before it worked from the same live list.
GcRecord(by, r, before) ==
    [by |-> by, listed |-> r.listed, ok |-> r.ok, active |-> r.active,
     delLogs |-> r.delLogs, delStore |-> r.delStore,
     unreadable |-> r.unreadable,
     repeat |-> r.listed /\ before.listed /\ before.active = r.active,
     afterDeletion |-> before.delLogs # {} \/ before.delStore # {}]

NoGc ==
    [by |-> "none", listed |-> FALSE, ok |-> FALSE, active |-> <<>>,
     delLogs |-> {}, delStore |-> {}, unreadable |-> {}, repeat |-> FALSE,
     afterDeletion |-> FALSE]

\* No registry call made by the harness.
NoCall == [fn |-> "none"]

\* No key handled since another actor acted.
NoKey == [key |-> "none"]

\* No kill requested yet.
NoRequest == [session |-> None, esc |-> FALSE]

----------------------------------------------------------------------------
(* main.rs: run_tui, the notification dispatch of a periodic pass *)

StatusMap(view) ==
    [n \in {view[i].session_name : i \in 1..Len(view)} |->
        (CHOOSE e \in Range(view) : e.session_name = n).status]

Alert(session_name, kind) ==
    [name |-> trim_start_matches(session_name, SWARM_PREFIX), kind |-> kind]

\* A variant of Dispatch that never records what it saw.
RECURSIVE Dispatch_no_insert(_, _, _, _)
Dispatch_no_insert(updated, i, prev, alerts) ==
    IF i > Len(updated) THEN [prev |-> prev, alerts |-> alerts]
    ELSE
        LET session == updated[i]
            name == session.session_name
            seen == name \in DOMAIN prev
            new_status == session.status
            needs == IF new_status = "NeedsInput"
                        /\ ~(seen /\ prev[name] = "NeedsInput")
                     THEN {Alert(name, "needs_input")} ELSE {}
            done == IF new_status = "Done"
                       /\ ~(seen /\ prev[name] = "Done")
                    THEN {Alert(name, "done")} ELSE {}
        IN  Dispatch_no_insert(updated, i + 1, prev,
                               alerts \cup needs \cup done)

\* for session in &updated { ... prev_status.insert(...) }
RECURSIVE Dispatch(_, _, _, _)
Dispatch(updated, i, prev, alerts) ==
    IF i > Len(updated) THEN [prev |-> prev, alerts |-> alerts]
    ELSE
        LET session == updated[i]
            name == session.session_name
            seen == name \in DOMAIN prev
            new_status == session.status
            needs == IF new_status = "NeedsInput"
                        /\ ~(seen /\ prev[name] = "NeedsInput")
                     THEN {Alert(name, "needs_input")} ELSE {}
            done == IF new_status = "Done"
                       /\ ~(seen /\ prev[name] = "Done")
                    THEN {Alert(name, "done")} ELSE {}
            inserted == [n \in DOMAIN prev \cup {name} |->
                            IF n = name THEN new_status ELSE prev[n]]
        IN  Dispatch(updated, i + 1, inserted, alerts \cup needs \cup done)

\* A variant of Baseline that treats the first pass as a transition from
\* "nothing seen".
Baseline_dispatching(view) == Dispatch(view, 1, <<>>, {})

\* let mut prev_status = sessions.iter().map(...).collect(): the first pass
\* fills the map and calls no notifier.
Baseline(view) == [prev |-> StatusMap(view), alerts |-> {}]

\* let pipe_status: HashMap<String, String> = HashMap::new(): never
\* written; the view shows a warning for the sessions it holds.
pipe_status == <<>>

\* The session whose observed statuses exampleRun follows, and the statuses.
Watched == <<SWARM_PREFIX, StemNames[1]>>
ExampleStatuses == <<"Running", "NeedsInput", "NeedsInput", "Done">>

ExampleOff == [pos |-> -1, alerts |-> 0]
ExampleArmed == [pos |-> 0, alerts |-> 0]

ObservedStatus(view, n) ==
    IF \E i \in 1..Len(view) : view[i].session_name = n
    THEN Some((CHOOSE e \in Range(view) : e.session_name = n).status)
    ELSE None

\* exampleRun after a pass of the dispatcher that saw `view` and fired
\* `alerts`: one step further along ExampleStatuses, or off.
ExampleAfter(run, view, alerts) ==
    LET seen == ObservedStatus(view, Watched)
        mine == {al \in alerts : al = Alert(Watched, al.kind)}
    IN  IF run.pos < 0 \/ run.pos >= Len(ExampleStatuses) THEN run
        ELSE IF seen = None THEN (IF run.pos = 0 THEN ExampleOff ELSE run)
        ELSE IF Unwrap(seen) = ExampleStatuses[run.pos + 1]
        THEN [pos |-> run.pos + 1, alerts |-> run.alerts + Cardinality(mine)]
        ELSE ExampleOff

\* run_tui up to the loop: the first pass seeds prev_status.  `envs` are
\* the answers the environment can give during the pass.
StartupWith(envs) ==
    /\ pc = "start"
    /\ \E env \in envs :
        \E r \in {collect_sessions(hostSessions, logFiles, store, env)} :
        \E b \in {Baseline(r.out)} :
            /\ logFiles' = r.logs
            /\ store' = r.store
            /\ lastGc' = GcRecord("Startup", r, lastGc)
            /\ IF r.ok
               THEN /\ pc' = "loop"
                    /\ sessions' = r.out
                    /\ prev_status' = b.prev
                    /\ fired' = b.alerts
                    /\ exampleRun' = ExampleAfter(exampleRun, r.out, b.alerts)
               ELSE /\ pc' = "exit"
                    /\ exampleRun' = ExampleOff
                    /\ UNCHANGED <<sessions, prev_status, fired>>
    /\ UNCHANGED <<sideVars, hostSessions, notifications_enabled, detectVars, callVars,
                   keyVars>>

\* `observed` is the set the pane contents are drawn from.
StartupOver(observed) == StartupWith(PassEnvsOver(hostSessions, observed))

Startup == StartupOver(Observations)

\* if updated.is_empty() { selected = 0 } else if selected >= updated.len()
\* { selected = updated.len() - 1 }
ClampSelected(sel, updated) ==
    IF Len(updated) = 0 THEN 0
    ELSE IF sel >= Len(updated) THEN Len(updated) - 1
    ELSE sel

\* The periodic pass of the main loop.  The host of the TUI always runs a
\* server, so the probe of ensure_server succeeds or cannot be run and the
\* socket is left alone.
\* `visible` is what the host's listing shows of its sessions, `envs` the
\* answers the environment can give during the pass.  The task list, the
\* cached preview and last_refresh are left to the caller.
TickPass(visible, envs) ==
    /\ pc = "loop"
    /\ \E env \in envs :
        \E r \in {collect_sessions(visible, logFiles, store, env)} :
        \E d \in {Dispatch(r.out, 1, prev_status, {})} :
            /\ logFiles' = r.logs
            /\ store' = r.store
            /\ lastGc' = GcRecord("Tick", r, lastGc)
            /\ IF r.ok
               THEN /\ sessions' = r.out
                    /\ selected' = ClampSelected(selected, r.out)
                    /\ IF notifications_enabled
                       THEN /\ prev_status' = d.prev
                            /\ fired' = d.alerts
                            /\ exampleRun' =
                                ExampleAfter(exampleRun, r.out, d.alerts)
                       ELSE /\ prev_status' = prev_status
                            /\ fired' = {}
                            /\ exampleRun' = ExampleOff
               ELSE /\ fired' = {}
                    /\ UNCHANGED <<sessions, selected, prev_status, exampleRun>>
    /\ lastKey' = NoKey
    /\ UNCHANGED <<hostSessions, pc, notifications_enabled, detectVars,
                   callVars, showing_tasks, confirm_kill_mode,
                   pending_kill_session, new_agent_mode, send_input_mode,
                   request>>

\* The pass with an empty tasks directory and a pane that cannot be
\* captured, at a time that is not followed.
TickSeeing(visible, envs) ==
    /\ TickPass(visible, envs)
    /\ UNCHANGED sideVars

TickOver(observed) ==
    TickSeeing(hostSessions, PassEnvsOver(hostSessions, observed))

Tick == TickOver(Observations)

\* The periodic pass while the host's server cannot be reached though its
\* sessions live (its socket file is gone, or the connection is refused):
\* `list-sessions` is run and exits with a failure status, which
\* list_sessions answers with Ok(vec![]).
TickUnreachable ==
    /\ hostSessions \cap SwarmNames # {}
    /\ TickSeeing({}, {env \in PassEnvsOver({}, QuietObservations) :
                            env.spawned})

\* `swarm new <name>` run from a shell: handle_new.
HandleNew ==
    /\ \E session \in SwarmNames, created \in BOOLEAN, attached \in BOOLEAN :
        LET started == created /\ session \notin hostSessions
        IN  /\ store' = store \cup {session}
            /\ hostSessions' = IF started THEN hostSessions \cup {session}
                               ELSE hostSessions
            /\ logFiles' = IF started
                           THEN ensure_pipe(session, attached, logFiles)
                           ELSE logFiles
    /\ lastGc' = NoGc
    /\ lastKey' = NoKey
    /\ UNCHANGED <<sideVars, tuiVars, detectVars, exampleRun, callVars, selected,
                   showing_tasks, confirm_kill_mode, pending_kill_session,
                   new_agent_mode, send_input_mode, request>>

\* A session ends on the host without swarm killing it.
SessionExits ==
    /\ \E n \in hostSessions \cap SwarmNames :
        hostSessions' = hostSessions \ {n}
    /\ lastGc' = NoGc
    /\ lastKey' = NoKey
    /\ UNCHANGED <<sideVars, logFiles, store, tuiVars, detectVars, exampleRun, callVars,
                   selected, showing_tasks, confirm_kill_mode,
                   pending_kill_session, new_agent_mode, send_input_mode, request>>

DetectParked == lines = <<>> /\ age = None /\ status = None

\* No stale socket and no registry call of the harness.
CallsParked == socket = FALSE /\ lastCall = NoCall

\* The processes that run the TUI on one home directory.
Procs == {"p1", "p2"}

\* A process that is not running: no startup done, no update task.
ProcOff == [pc |-> "off", task |-> "none", just_updated |-> None,
            shown |-> FALSE]

\* No update check started yet, no just-updated marker written or read.
NoUpd == [started |-> None, tooSoon |-> FALSE, writer |-> None, reads |-> 0,
          ownRead |-> FALSE, spawned |-> {}, respawned |-> FALSE]

\* No main loop running.
LoopOff == [on |-> FALSE]

\* No handle_new running.
NewOff == [pc |-> "off"]

\* The content of the session store and of the logs left out.
CreateParked == meta = <<>> /\ logText = <<>> /\ newProc = NewOff

\* An empty tasks directory, no preview captured, no refresh followed.
RefreshParked ==
    /\ taskFiles = {}
    /\ tasks = <<>>
    /\ cached_preview = <<>>
    /\ last_refresh = 0

\* No update task, no main loop and no inbox of the harnesses.
SideParked ==
    /\ now = 0
    /\ last_check_file = None
    /\ just_updated_file = None
    /\ procs = [p \in Procs |-> ProcOff]
    /\ lastUpd = NoUpd
    /\ loop = LoopOff
    /\ inbox = <<>>
    /\ CreateParked
    /\ RefreshParked

\* let mut selected = 0; showing_tasks = false; send_input_mode = false;
\* confirm_kill_mode = false; pending_kill_session = None;
\* new_agent_mode = false
KeysAtEntry ==
    /\ selected = 0
    /\ showing_tasks = FALSE
    /\ confirm_kill_mode = FALSE
    /\ pending_kill_session = None
    /\ new_agent_mode = FALSE
    /\ send_input_mode = FALSE
    /\ lastKey = NoKey
    /\ request = NoRequest

\* The state a TUI process starts in: any sessions on the host, any logs and
\* session-store entries left by earlier runs.
InitEnv ==
    /\ DetectParked
    /\ CallsParked
    /\ KeysAtEntry
    /\ SideParked
    /\ hostSessions \in {ForeignNames \cup S : S \in SUBSET SwarmNames}
    /\ logFiles \in {ForeignLogFiles \cup {LogFileName(n) : n \in L} :
                        L \in SUBSET SwarmNames}
    /\ store \in SUBSET SwarmNames
    /\ pc = "start"
    /\ sessions = <<>>
    /\ prev_status = <<>>
    /\ fired = {}
    /\ lastGc = NoGc

Init ==
    /\ InitEnv
    /\ notifications_enabled \in BOOLEAN
    /\ exampleRun = ExampleOff

Next ==
    \/ Startup
    \/ Tick
    \/ HandleNew
    \/ SessionExits

Spec == Init /\ [][Next]_vars

\* The same program with notifications enabled, following the statuses that
\* the dispatcher sees for the watched session.
InitNotify ==
    /\ InitEnv
    /\ notifications_enabled = TRUE
    /\ exampleRun = ExampleArmed

SpecNotify == InitNotify /\ [][Next]_vars

\* The TUI on a host whose server can become unreachable for a pass.
NextOutage ==
    \/ StartupOver(QuietObservations)
    \/ TickOver(QuietObservations)
    \/ TickUnreachable
    \/ HandleNew
    \/ SessionExits

SpecOutage == InitNotify /\ [][NextOutage]_vars

\* A periodic pass whose listing succeeded has just run.
JustReaped == lastGc.by = "Tick" /\ lastGc.listed

\* The main loop keeps running its periodic pass and the pass keeps reaching
\* the host: again and again a pass has just run its cleanup.
InitFair ==
    /\ InitEnv
    /\ notifications_enabled = TRUE
    /\ exampleRun = ExampleOff

SpecFair == InitFair /\ [][Next]_vars /\ []<>JustReaped

----------------------------------------------------------------------------
(* tmux.rs: kill_session; main.rs: mark_done; run_tui: the key handling     *)

\* kill_session: Err when the host binary cannot be run (`spawned` false) or
\* the command exits with a failure status, as it does when the host has
\* no session of that name.
kill_session(session, spawned, host) ==
    IF spawned /\ session \in host
    THEN [ok |-> TRUE, host |-> host \ {session}]
    ELSE [ok |-> FALSE, host |-> host]

\* A variant of mark_done that clears the logs directory of session logs.
mark_done_all_logs(session, spawned, host, logs, entries) ==
    LET k == kill_session(session, spawned, host)
    IN  IF ~k.ok
        THEN [ok |-> FALSE, host |-> host, logs |-> logs, store |-> entries]
        ELSE [ok |-> TRUE, host |-> k.host,
              logs |-> {f \in logs : ~IsSessionLogName(f)},
              store |-> entries \ {session}]

\* mark_done: kill_session(..)?, then the session's directory in the
\* session store and its log file (session.log_path) are removed.
mark_done(session, spawned, host, logs, entries) ==
    LET k == kill_session(session, spawned, host)
    IN  IF ~k.ok
        THEN [ok |-> FALSE, host |-> host, logs |-> logs, store |-> entries]
        ELSE [ok |-> TRUE, host |-> k.host,
              logs |-> logs \ {LogFileName(session)},
              store |-> entries \ {session}]

\* sessions.iter().find(|s| s.session_name == session_name)
InView(view, name) == \E i \in 1..Len(view) : view[i].session_name = name

\* What the handler of 'y' did: the session it issued the host kill call
\* for (None when it issued none), whether mark_done returned Ok, whether
\* the session was already gone from the host, the logs and session-store
\* entries that mark_done removed, and the request the key answered.
KeyYRecord(killed, m, gone) ==
    [key |-> "y", killed |-> killed, ok |-> m.ok, gone |-> gone,
     delLogs |-> logFiles \ m.logs, delStore |-> store \ m.store,
     requested |-> request.session, esc |-> request.esc]

\* No call of mark_done.
NoKill == [ok |-> FALSE, logs |-> logFiles, store |-> store]

\* if selected >= sessions.len() && !sessions.is_empty()
\* { selected = sessions.len() - 1 }
SelectedAfterKill(sel, updated) ==
    IF sel >= Len(updated) /\ Len(updated) > 0 THEN Len(updated) - 1 ELSE sel

\* 'd': ask for the kill of the selected session.
KeyD ==
    /\ pc = "loop"
    /\ ~send_input_mode /\ ~new_agent_mode
    /\ ~showing_tasks /\ ~confirm_kill_mode
    /\ selected < Len(sessions)
    /\ confirm_kill_mode' = TRUE
    /\ pending_kill_session' = Some(sessions[selected + 1].session_name)
    /\ request' = [session |-> Some(sessions[selected + 1].session_name),
                   esc |-> FALSE]
    /\ lastKey' = NoKey
    /\ lastGc' = NoGc
    /\ UNCHANGED <<sideVars, detectVars, envVars, tuiVars, exampleRun, callVars,
                   selected, showing_tasks, new_agent_mode, send_input_mode>>

\* 'y': typed into the prompt when one is open, the confirmation of a kill
\* when confirm_kill_mode, else no key of the TUI.  On Ok of mark_done the
\* view is refreshed by a pass that calls no notifier.
KeyY ==
    /\ pc = "loop"
    /\ IF send_input_mode \/ new_agent_mode \/ ~confirm_kill_mode
       THEN /\ lastKey' = KeyYRecord(None, NoKill, FALSE)
            /\ lastGc' = NoGc
            /\ UNCHANGED <<envVars, sessions, selected, confirm_kill_mode,
                           pending_kill_session, request>>
       ELSE /\ confirm_kill_mode' = FALSE
            /\ pending_kill_session' = None
            /\ request' = NoRequest
            /\ IF ~(IsSome(pending_kill_session)
                      /\ InView(sessions, Unwrap(pending_kill_session)))
               THEN /\ lastKey' = KeyYRecord(None, NoKill, FALSE)
                    /\ lastGc' = NoGc
                    /\ UNCHANGED <<envVars, sessions, selected>>
               ELSE \E spawned \in BOOLEAN :
                    \E m \in {mark_done(Unwrap(pending_kill_session), spawned,
                                        hostSessions, logFiles, store)} :
                      /\ lastKey' = KeyYRecord(pending_kill_session, m,
                              Unwrap(pending_kill_session) \notin hostSessions)
                      /\ IF ~m.ok
                         THEN /\ lastGc' = NoGc
                              /\ UNCHANGED <<envVars, sessions, selected>>
                         ELSE \E env \in PassEnvsOver(m.host,
                                                      QuietObservations) :
                              \E r \in {collect_sessions(m.host, m.logs,
                                                         m.store, env)} :
                                /\ hostSessions' = m.host
                                /\ logFiles' = r.logs
                                /\ store' = r.store
                                /\ lastGc' = GcRecord("KeyY", r, NoGc)
                                /\ IF r.ok
                                   THEN /\ sessions' = r.out
                                        /\ selected' =
                                              SelectedAfterKill(selected, r.out)
                                   ELSE UNCHANGED <<sessions, selected>>
    /\ UNCHANGED <<sideVars, detectVars, pc, notifications_enabled, prev_status, fired,
                   exampleRun, callVars, showing_tasks, new_agent_mode, send_input_mode>>

\* Esc: closes the send-input prompt when it is open, else the "name your
\* work" prompt when it is open; else cancels the kill confirmation; else
\* leaves the tasks view.
KeyEsc ==
    /\ pc = "loop"
    /\ IF send_input_mode \/ new_agent_mode
       THEN /\ send_input_mode' = FALSE
            /\ new_agent_mode' = (send_input_mode /\ new_agent_mode)
            /\ request' = [request EXCEPT !.esc = IsSome(request.session)]
            /\ UNCHANGED <<confirm_kill_mode, pending_kill_session,
                           showing_tasks>>
       ELSE /\ UNCHANGED <<send_input_mode, new_agent_mode>>
            /\ IF confirm_kill_mode
               THEN /\ confirm_kill_mode' = FALSE
                    /\ pending_kill_session' = None
                    /\ request' = NoRequest
                    /\ showing_tasks' = showing_tasks
               ELSE /\ showing_tasks' = FALSE
                    /\ UNCHANGED <<confirm_kill_mode, pending_kill_session,
                                   request>>
    /\ lastKey' = NoKey
    /\ lastGc' = NoGc
    /\ UNCHANGED <<sideVars, detectVars, envVars, tuiVars, exampleRun, callVars,
                   selected>>

\* 'n': opens the "name your work" prompt, in either view.
KeyN ==
    /\ pc = "loop"
    /\ ~send_input_mode /\ ~new_agent_mode
    /\ new_agent_mode' = TRUE
    /\ lastKey' = NoKey
    /\ lastGc' = NoGc
    /\ UNCHANGED <<sideVars, detectVars, envVars, tuiVars, exampleRun, callVars,
                   selected, showing_tasks, confirm_kill_mode,
                   pending_kill_session, send_input_mode, request>>

\* 'j' / Down in the agents view.
KeyJ ==
    /\ pc = "loop"
    /\ ~send_input_mode /\ ~new_agent_mode /\ ~showing_tasks
    /\ selected + 1 < Len(sessions)
    /\ selected' = selected + 1
    /\ lastKey' = NoKey
    /\ lastGc' = NoGc
    /\ UNCHANGED <<sideVars, detectVars, envVars, tuiVars, exampleRun, callVars,
                   showing_tasks, confirm_kill_mode, pending_kill_session,
                   new_agent_mode, send_input_mode, request>>

\* 'k' / Up in the agents view.
KeyK ==
    /\ pc = "loop"
    /\ ~send_input_mode /\ ~new_agent_mode /\ ~showing_tasks
    /\ selected > 0
    /\ selected' = selected - 1
    /\ lastKey' = NoKey
    /\ lastGc' = NoGc
    /\ UNCHANGED <<sideVars, detectVars, envVars, tuiVars, exampleRun, callVars,
                   showing_tasks, confirm_kill_mode, pending_kill_session,
                   new_agent_mode, send_input_mode, request>>

\* 't': switches between the agents view and the tasks view.
KeyT ==
    /\ pc = "loop"
    /\ ~send_input_mode /\ ~new_agent_mode
    /\ showing_tasks' = ~showing_tasks
    /\ lastKey' = NoKey
    /\ lastGc' = NoGc
    /\ UNCHANGED <<sideVars, detectVars, envVars, tuiVars, exampleRun, callVars,
                   selected, confirm_kill_mode, pending_kill_session,
                   new_agent_mode, send_input_mode, request>>

\* The TUI with its keys, notifications switched off, every pane showing
\* the same output, and no session created while it runs.
InitKeys ==
    /\ InitEnv
    /\ notifications_enabled = FALSE
    /\ exampleRun = ExampleOff

NextKeys ==
    \/ StartupOver(QuietObservations)
    \/ TickOver(QuietObservations)
    \/ SessionExits
    \/ KeyD
    \/ KeyY
    \/ KeyEsc
    \/ KeyN
    \/ KeyJ
    \/ KeyK
    \/ KeyT

SpecKeys == InitKeys /\ [][NextKeys]_vars

\* The answers of the environment during a pass in which every pane shows
\* the same output and the log pipe of every session is attached whenever
\* the host can be reached.
ModeEnvs(host) ==
    {env \in PassEnvsOver(host, QuietObservations) :
        \A n \in host \cap SwarmNames : env.attached[n] = env.spawned}

\* A variant of LastIndex that selects one past the last session.
LastIndex_len(view) == Len(view)

\* sessions.len().saturating_sub(1)
LastIndex(view) == IF Len(view) = 0 THEN 0 ELSE Len(view) - 1

\* create_task_and_start_agent, start_from_task: handle_new for `session`
\* run by the TUI, then the view is read again and the last session is
\* selected.  When the pass fails the view is kept (`if let Ok`, propagate
\* FALSE) or run_tui returns the error (`?`, propagate TRUE).
StartFromTui(propagate) ==
    \E session \in SwarmNames, created \in BOOLEAN, attached \in BOOLEAN :
        LET started == created /\ session \notin hostSessions
            hostAfter == hostSessions \cup {session}
            storeAfter == store \cup {session}
            logsAfter == ensure_pipe(session, attached, logFiles)
        IN  IF ~started
            THEN /\ store' = storeAfter
                 /\ lastGc' = NoGc
                 /\ UNCHANGED <<hostSessions, logFiles, pc, sessions,
                                selected, showing_tasks>>
            ELSE \E env \in ModeEnvs(hostAfter) :
                 \E r \in {collect_sessions(hostAfter, logsAfter, storeAfter,
                                            env)} :
                    /\ hostSessions' = hostAfter
                    /\ logFiles' = r.logs
                    /\ store' = r.store
                    /\ lastGc' = GcRecord("KeyEnter", r, NoGc)
                    /\ showing_tasks' = FALSE
                    /\ IF r.ok
                       THEN /\ sessions' = r.out
                            /\ selected' = LastIndex(r.out)
                            /\ pc' = pc
                       ELSE /\ pc' = IF propagate THEN "exit" ELSE pc
                            /\ UNCHANGED <<sessions, selected>>

\* Enter.  In the send-input prompt: sends the text and closes the prompt.
\* In the "name your work" prompt: with a description typed, creates the
\* task and starts its agent; closes the prompt.  In the tasks view, with
\* a task selected: switches to the session bound to the task when the view
\* holds one, else starts a session for it.  In the agents view: opens the
\* send-input prompt when a session is selected.
KeyEnter ==
    /\ pc = "loop"
    /\ lastKey' = NoKey
    /\ IF send_input_mode
       THEN /\ send_input_mode' = FALSE
            /\ lastGc' = NoGc
            /\ UNCHANGED <<envVars, pc, sessions, selected, showing_tasks,
                           new_agent_mode>>
       ELSE IF new_agent_mode
       THEN /\ new_agent_mode' = FALSE
            /\ send_input_mode' = send_input_mode
            /\ \E typed \in BOOLEAN :
                 IF typed
                 THEN StartFromTui(FALSE)
                 ELSE /\ lastGc' = NoGc
                      /\ UNCHANGED <<envVars, pc, sessions, selected,
                                     showing_tasks>>
       ELSE IF showing_tasks
       THEN /\ UNCHANGED <<send_input_mode, new_agent_mode>>
            /\ \/ /\ lastGc' = NoGc
                  /\ UNCHANGED <<envVars, pc, sessions, selected,
                                 showing_tasks>>
               \/ \E idx \in 1..Len(sessions) :
                    /\ selected' = idx - 1
                    /\ showing_tasks' = FALSE
                    /\ lastGc' = NoGc
                    /\ UNCHANGED <<envVars, pc, sessions>>
               \/ StartFromTui(TRUE)
       ELSE /\ send_input_mode' = (selected < Len(sessions))
            /\ lastGc' = NoGc
            /\ UNCHANGED <<envVars, pc, sessions, selected, showing_tasks,
                           new_agent_mode>>
    /\ UNCHANGED <<sideVars, detectVars, notifications_enabled, prev_status,
                   fired, exampleRun, callVars, confirm_kill_mode,
                   pending_kill_session, request>>

\* The digits a key can carry, '0' included.
Digits == 0..3

\* '1'..'9' in the agents view: selects the session of that number when the
\* view holds one.
KeyDigit ==
    /\ pc = "loop"
    /\ ~send_input_mode /\ ~new_agent_mode /\ ~showing_tasks
    /\ \E idx \in Digits :
         selected' = IF idx > 0 /\ idx - 1 < Len(sessions)
                     THEN idx - 1 ELSE selected
    /\ lastKey' = NoKey
    /\ lastGc' = NoGc
    /\ UNCHANGED <<sideVars, detectVars, envVars, tuiVars, exampleRun,
                   callVars, showing_tasks, confirm_kill_mode,
                   pending_kill_session, new_agent_mode, send_input_mode,
                   request>>

\* The TUI with every key that opens or closes a mode, moves the selection
\* or changes the view, sessions created from the TUI and from a shell.
NextModes ==
    \/ StartupWith(ModeEnvs(hostSessions))
    \/ TickSeeing(hostSessions, ModeEnvs(hostSessions))
    \/ SessionExits
    \/ HandleNew
    \/ KeyD
    \/ KeyY
    \/ KeyEsc
    \/ KeyN
    \/ KeyJ
    \/ KeyK
    \/ KeyT
    \/ KeyEnter
    \/ KeyDigit

\* The sessions on the host have their logs and their entries of the
\* session store, and nothing is left of earlier sessions.
InitModes ==
    /\ InitKeys
    /\ logFiles = ForeignLogFiles
                    \cup {LogFileName(n) : n \in hostSessions \cap SwarmNames}
    /\ store = hostSessions \cap SwarmNames

SpecModes == InitModes /\ [][NextModes]_vars

----------------------------------------------------------------------------
(* main.rs: auto_update_on_startup, called once by run_tui                  *)

\* Duration::from_secs(86400)
DaySecs == 86400

\* The clock runs up to MaxDays days, in steps of half a day or a day.
MaxDays == 1

\* The releases check_for_update can find; the marker holds "v{version}".
Releases == {"2.0"}
MarkerText(version) == <<"v", version>>

TimePasses ==
    /\ \E d \in {DaySecs \div 2, DaySecs} :
          /\ now + d <= MaxDays * DaySecs
          /\ now' = now + d
    /\ UNCHANGED <<last_check_file, just_updated_file, procs, lastUpd>>
    /\ UNCHANGED <<detectVars, refreshVars, envVars, tuiVars, lastGc, exampleRun, callVars,
                   keyVars, createVars, loop, inbox>>

\* A process enters run_tui and auto_update_on_startup: home_dir()?, then
\* fs::read_to_string(&just_updated_file).
ReadJustUpdated(p) ==
    /\ procs[p].pc = "off"
    /\ \E homeOk \in BOOLEAN :
          IF ~homeOk
          THEN /\ procs' = [procs EXCEPT ![p].pc = "loop"]
               /\ UNCHANGED lastUpd
          ELSE IF IsSome(just_updated_file)
          THEN /\ procs' = [procs EXCEPT ![p].pc = "consume",
                                         ![p].just_updated = just_updated_file]
               /\ lastUpd' = [lastUpd EXCEPT
                                 !.reads = IF @ = 0 THEN 1 ELSE 2,
                                 !.ownRead = @ \/ lastUpd.writer = Some(p)]
          ELSE /\ procs' = [procs EXCEPT ![p].pc = "gate"]
               /\ UNCHANGED lastUpd
    /\ UNCHANGED <<now, last_check_file, just_updated_file>>
    /\ UNCHANGED <<detectVars, refreshVars, envVars, tuiVars, lastGc, exampleRun, callVars,
                   keyVars, createVars, loop, inbox>>

\* let _ = fs::remove_file(&just_updated_file); return Some(version)
RemoveJustUpdated(p) ==
    /\ procs[p].pc = "consume"
    /\ just_updated_file' = None
    /\ procs' = [procs EXCEPT ![p].pc = "loop"]
    /\ UNCHANGED <<now, last_check_file, lastUpd>>
    /\ UNCHANGED <<detectVars, refreshVars, envVars, tuiVars, lastGc, exampleRun, callVars,
                   keyVars, createVars, loop, inbox>>

\* modified.elapsed().ok()? < Duration::from_secs(86400)
CheckedToday(marker, clock) ==
    IsSome(marker) /\ clock - Unwrap(marker) < DaySecs

\* The once-per-day gate on the mtime of the last-check marker, then
\* std::thread::spawn; auto_update_on_startup returns None either way.
GateAndSpawn(p) ==
    /\ procs[p].pc = "gate"
    /\ IF CheckedToday(last_check_file, now)
       THEN /\ procs' = [procs EXCEPT ![p].pc = "loop"]
            /\ UNCHANGED lastUpd
       ELSE /\ procs' = [procs EXCEPT ![p].pc = "loop", ![p].task = "created"]
            /\ lastUpd' = [lastUpd EXCEPT
                              !.spawned = @ \cup {p},
                              !.respawned = @ \/ p \in lastUpd.spawned]
    /\ UNCHANGED <<now, last_check_file, just_updated_file>>
    /\ UNCHANGED <<detectVars, refreshVars, envVars, tuiVars, lastGc, exampleRun, callVars,
                   keyVars, createVars, loop, inbox>>

\* The update task: fs::write(&last_check_file, ""), then it starts
\* check_for_update().
TaskStartsCheck(p) ==
    /\ procs[p].task = "created"
    /\ last_check_file' = Some(now)
    /\ procs' = [procs EXCEPT ![p].task = "checking"]
    /\ lastUpd' = [lastUpd EXCEPT
                      !.started = Some(now),
                      !.tooSoon = @ \/ CheckedToday(lastUpd.started, now)]
    /\ UNCHANGED <<now, just_updated_file>>
    /\ UNCHANGED <<detectVars, refreshVars, envVars, tuiVars, lastGc, exampleRun, callVars,
                   keyVars, createVars, loop, inbox>>

\* The update task ends: nothing newer, or a failure on the way, or the
\* binary is replaced and the just-updated marker written.
TaskEnds(p) ==
    /\ procs[p].task = "checking"
    /\ procs' = [procs EXCEPT ![p].task = "done"]
    /\ \/ UNCHANGED <<just_updated_file, lastUpd>>
       \/ \E version \in Releases :
            /\ just_updated_file' = Some(MarkerText(version))
            /\ lastUpd' = [lastUpd EXCEPT !.writer = Some(p), !.reads = 0]
    /\ UNCHANGED <<now, last_check_file>>
    /\ UNCHANGED <<detectVars, refreshVars, envVars, tuiVars, lastGc, exampleRun, callVars,
                   keyVars, createVars, loop, inbox>>

\* A variant of the main loop that waits for the update task.
LoopStep_joining(p) ==
    /\ procs[p].pc = "loop"
    /\ procs[p].task \in {"none", "done"}
    /\ procs' = [procs EXCEPT ![p].shown = IsSome(procs[p].just_updated)]
    /\ UNCHANGED <<now, last_check_file, just_updated_file, lastUpd>>
    /\ UNCHANGED <<detectVars, refreshVars, envVars, tuiVars, lastGc, exampleRun, callVars,
                   keyVars, createVars, loop, inbox>>

\* A turn of the main loop of a process (draw, poll, key handling, pass):
\* of the update it reads the local just_updated for the header, nothing
\* else; the JoinHandle of the task is dropped.
LoopStep(p) ==
    /\ procs[p].pc = "loop"
    /\ procs' = [procs EXCEPT ![p].shown = IsSome(procs[p].just_updated)]
    /\ UNCHANGED <<now, last_check_file, just_updated_file, lastUpd>>
    /\ UNCHANGED <<detectVars, refreshVars, envVars, tuiVars, lastGc, exampleRun, callVars,
                   keyVars, createVars, loop, inbox>>

\* The process ends ('q'); its update task ends with it.
ProcessExits(p) ==
    /\ procs[p].pc = "loop"
    /\ procs' = [procs EXCEPT ![p] = ProcOff]
    /\ lastUpd' = [lastUpd EXCEPT
                      !.writer = IF @ = Some(p) THEN None ELSE @,
                      !.spawned = @ \ {p}]
    /\ UNCHANGED <<now, last_check_file, just_updated_file>>
    /\ UNCHANGED <<detectVars, refreshVars, envVars, tuiVars, lastGc, exampleRun, callVars,
                   keyVars, createVars, loop, inbox>>

\* Two processes started any number of times on one home directory; no
\* session host, no TUI state of the other parts.
InitUpdate ==
    /\ DetectParked
    /\ hostSessions = {} /\ logFiles = {} /\ store = {}
    /\ pc = "exit"
    /\ notifications_enabled = FALSE
    /\ sessions = <<>>
    /\ prev_status = <<>>
    /\ fired = {}
    /\ lastGc = NoGc
    /\ exampleRun = ExampleOff
    /\ CallsParked
    /\ KeysAtEntry
    /\ SideParked

NextUpdate ==
    \/ TimePasses
    \/ \E p \in Procs : ReadJustUpdated(p)
    \/ \E p \in Procs : RemoveJustUpdated(p)
    \/ \E p \in Procs : GateAndSpawn(p)
    \/ \E p \in Procs : TaskStartsCheck(p)
    \/ \E p \in Procs : TaskEnds(p)
    \/ \E p \in Procs : LoopStep(p)
    \/ \E p \in Procs : ProcessExits(p)

SpecUpdate == InitUpdate /\ [][NextUpdate]_vars

----------------------------------------------------------------------------
(* main.rs: run_tui, the control flow of one turn of the main loop          *)

\* event::poll(Duration::from_millis(100))
PollTimeoutMs == 100

\* cfg.general.poll_interval_ms.min(5_000)
MaxPollIntervalMs == 5000

Min(a, b) == IF a <= b THEN a ELSE b

\* The settings of poll_interval_ms the loop is run with: the default and
\* one above the cap.
PollIntervals == {1000, 9000}

\* The keys a turn can read; "none" when the poll times out, "char" for a
\* printable character without a meaning of its own in the agents view.
KeyCodes == {"none", "char", "Enter", "Esc", "n", "h"}

\* The key is handled by the help overlay, the hooks prompt, the send-input
\* prompt or the "name your work" prompt, whose blocks end in `continue`.
Swallowed(l, key) ==
    /\ key # "none"
    /\ \/ l.show_help /\ key # "Esc"
       \/ l.show_hooks_prompt
       \/ l.send_input_mode
       \/ l.new_agent_mode

\* The modes after the key: the prompts close on their own keys; the main
\* match opens and closes them.
ModesAfter(l, key, hasSelection) ==
    IF key = "none" THEN l
    ELSE IF l.show_help /\ key # "Esc" THEN l
    ELSE IF l.show_hooks_prompt
    THEN [l EXCEPT !.show_hooks_prompt = key \notin {"n", "Esc"}]
    ELSE IF l.send_input_mode
    THEN [l EXCEPT !.send_input_mode = key \notin {"Enter", "Esc"}]
    ELSE IF l.new_agent_mode
    THEN [l EXCEPT !.new_agent_mode = key \notin {"Enter", "Esc"}]
    ELSE IF key = "h" THEN [l EXCEPT !.show_help = ~l.show_help]
    ELSE IF key = "Esc" THEN [l EXCEPT !.show_help = FALSE]
    ELSE IF key = "n" THEN [l EXCEPT !.new_agent_mode = TRUE]
    ELSE IF key = "Enter" THEN [l EXCEPT !.send_input_mode = hasSelection]
    ELSE l

\* No turn of the loop taken yet.
NoTurn == [key |-> "none", due |-> FALSE, passed |-> FALSE]

\* One turn of the loop: draw, poll for at most PollTimeoutMs, handle the
\* key, and, unless the handling ended in `continue`, run the pass when
\* last_refresh.elapsed() has reached the interval.  `due` is the same
\* test made at the end of the turn whether the turn gets there or not.
LoopIteration ==
    /\ loop.on
    /\ \E key \in KeyCodes, hasSelection \in BOOLEAN :
       \E waited \in IF key = "none" THEN {PollTimeoutMs}
                      ELSE {0, PollTimeoutMs} :
         LET elapsed == Min(loop.elapsed + waited, MaxPollIntervalMs)
             due == elapsed >= Min(loop.poll_interval_ms, MaxPollIntervalMs)
             passed == due /\ ~Swallowed(loop, key)
             after == ModesAfter(loop, key, hasSelection)
         IN  loop' = [after EXCEPT
                        !.elapsed = IF passed THEN 0 ELSE elapsed,
                        !.last = [key |-> key, due |-> due,
                                  passed |-> passed]]
    /\ UNCHANGED <<detectVars, refreshVars, envVars, tuiVars, lastGc, exampleRun, callVars,
                   keyVars, createVars, updVars, inbox>>

\* run_tui at the top of its loop, right after a refresh.
InitLoop ==
    /\ DetectParked
    /\ hostSessions = {} /\ logFiles = {} /\ store = {}
    /\ pc = "exit"
    /\ notifications_enabled = FALSE
    /\ sessions = <<>>
    /\ prev_status = <<>>
    /\ fired = {}
    /\ lastGc = NoGc
    /\ exampleRun = ExampleOff
    /\ CallsParked
    /\ KeysAtEntry
    /\ now = 0
    /\ last_check_file = None
    /\ just_updated_file = None
    /\ procs = [p \in Procs |-> ProcOff]
    /\ lastUpd = NoUpd
    /\ inbox = <<>>
    /\ CreateParked
    /\ RefreshParked
    /\ \E hooks_installed \in BOOLEAN, ms \in PollIntervals :
          loop = [on |-> TRUE, show_help |-> FALSE,
                  show_hooks_prompt |-> ~hooks_installed,
                  send_input_mode |-> FALSE, new_agent_mode |-> FALSE,
                  poll_interval_ms |-> ms, elapsed |-> 0, last |-> NoTurn]

NextLoop == LoopIteration

SpecLoop == InitLoop /\ [][NextLoop]_vars

----------------------------------------------------------------------------
(* main.rs: run_tui, the refresh at the end of a turn; load_tasks           *)

\* The files the tasks directory can hold: an open task, a task marked
\* done and the README.
TaskFiles ==
    { [stem |-> "fix", ext |-> "md", status |-> None],
      [stem |-> "old", ext |-> "md", status |-> Some("done")],
      [stem |-> "README", ext |-> "md", status |-> None] }

\* The directory without and with the open task.
TaskDirs == {TaskFiles \ {f \in TaskFiles : f.stem = "fix"}, TaskFiles}

\* load_tasks: the .md files of the directory but the README and the tasks
\* whose status is done or completed.  The directories of the model hold
\* at most one such file, so the order of the list does not arise.
load_tasks(dir) ==
    SetToSeq({f.stem : f \in {g \in dir :
                /\ g.ext = "md"
                /\ g.stem # "README"
                /\ g.status \notin {Some("done"), Some("completed")}}})

\* What capture_tail can return for a pane: an error, or its lines.
Captures == {None, Some(<< <<"text">> >>), Some(<< <<"more">> >>)}

\* A variant of CachedPreviewAfter that captures the preview after a failed
\* pass as well.
CachedPreviewAfter_unguarded(ok, view, sel, captured, before) ==
    IF sel < Len(view) /\ IsSome(captured)
    THEN Some(<<view[sel + 1].session_name, Unwrap(captured)>>)
    ELSE before

\* Inside `if let Ok(updated)`: if let Some(sel) = sessions.get(selected)
\* { if let Ok(lines) = capture_tail(..) { cached_preview = Some(..) } }
CachedPreviewAfter(ok, view, sel, captured, before) ==
    IF ok /\ sel < Len(view) /\ IsSome(captured)
    THEN Some(<<view[sel + 1].session_name, Unwrap(captured)>>)
    ELSE before

\* config.rs: poll_interval_ms = 1000
DefaultPollIntervalMs == 1000

\* last_refresh.elapsed() >= Duration::from_millis(
\*     cfg.general.poll_interval_ms.min(5_000)), on a clock of seconds
RefreshDue ==
    (now - last_refresh) * 1000
        >= Min(DefaultPollIntervalMs, MaxPollIntervalMs)

\* The answers of the environment during a pass in which the log pipe of
\* every session is attached whenever the host can be reached.
RefreshEnvs(host) ==
    {env \in PassEnvsOver(host, Observations) :
        \A n \in host \cap SwarmNames : env.attached[n] = env.spawned}

\* The refresh at the end of a turn of the loop, when it is due: the pass,
\* the preview of the selected session, the task list, last_refresh.
RefreshTick ==
    /\ RefreshDue
    /\ TickPass(hostSessions, RefreshEnvs(hostSessions))
    /\ \E captured \in Captures :
         cached_preview' = CachedPreviewAfter(lastGc'.ok, sessions', selected',
                                              captured, cached_preview)
    /\ tasks' = load_tasks(taskFiles)
    /\ last_refresh' = now
    /\ UNCHANGED <<updVars, loop, inbox, createVars, taskFiles>>

\* A task file is written to or removed from the tasks directory.
TasksChange ==
    /\ \E dir \in TaskDirs \ {taskFiles} : taskFiles' = dir
    /\ UNCHANGED <<detectVars, envVars, tuiVars, lastGc, exampleRun, callVars,
                   keyVars, updVars, loop, inbox, createVars, tasks,
                   cached_preview, last_refresh>>

\* run_tui with notifications enabled, right before its first pass: the
\* sessions on the host have their logs and their entries of the session
\* store; let mut tasks = load_tasks(cfg); let mut last_refresh =
\* Instant::now(); let mut cached_preview = None.
InitRefresh ==
    /\ DetectParked
    /\ CallsParked
    /\ KeysAtEntry
    /\ now = 0
    /\ last_check_file = None
    /\ just_updated_file = None
    /\ procs = [p \in Procs |-> ProcOff]
    /\ lastUpd = NoUpd
    /\ loop = LoopOff
    /\ inbox = <<>>
    /\ CreateParked
    /\ hostSessions \in {ForeignNames \cup S : S \in SUBSET SwarmNames}
    /\ logFiles = ForeignLogFiles
                    \cup {LogFileName(n) : n \in hostSessions \cap SwarmNames}
    /\ store = hostSessions \cap SwarmNames
    /\ pc = "start"
    /\ notifications_enabled = TRUE
    /\ sessions = <<>>
    /\ prev_status = <<>>
    /\ fired = {}
    /\ lastGc = NoGc
    /\ exampleRun = ExampleOff
    /\ taskFiles \in TaskDirs
    /\ tasks = load_tasks(taskFiles)
    /\ cached_preview = None
    /\ last_refresh = now

NextRefresh ==
    \/ StartupWith(RefreshEnvs(hostSessions))
    \/ RefreshTick
    \/ TimePasses
    \/ TasksChange
    \/ SessionExits

SpecRefresh == InitRefresh /\ [][NextRefresh]_vars

----------------------------------------------------------------------------
(* inbox/storage.rs: InboxStorage                                           *)

\* Item ids, as the sequences of their parts: a plain one and two that
\* differ in a path separator only.
ItemIds == {<<"msg_1">>, <<"a", "/", "b">>, <<"a", "_", "b">>}

\* id.replace(['/', '\\'], "_").replace("..", "_")
SafeId(id) ==
    [i \in 1..Len(id) |-> IF id[i] \in {"/", "\\", ".."} THEN "_" ELSE id[i]]

\* self.inbox_dir.join(format!("{}.json", safe_id))
item_path(id) == SafeId(id) \o <<".json">>

\* The items the harness saves: per id an older unread one and a newer
\* read one.
ItemsOf(id) ==
    {[id |-> id, content |-> "Older", timestamp |-> 1000, read |-> FALSE],
     [id |-> id, content |-> "Newer", timestamp |-> 2000, read |-> TRUE]}
Items == UNION {ItemsOf(id) : id \in ItemIds}

\* serde_json::to_string_pretty(item): the text of a file.
ToJson(item) == [kind |-> "json", fields |-> item]

\* A file that serde_json::from_str::<InboxItem> rejects.
Garbage == [kind |-> "garbage"]

Parses(text) == text.kind = "json"
FromJson(text) == text.fields

\* The directory as a set of [path, text]; at most one entry per path.
HasFile(files, path) == \E e \in files : e.path = path
TextAt(files, path) == (CHOOSE e \in files : e.path = path).text
WithFile(files, path, text) ==
    {e \in files : e.path # path} \cup {[path |-> path, text |-> text]}

\* fs::write(&path, json): Err leaves the directory as it was.
save_item(files, item, writeOk) ==
    IF writeOk
    THEN [ok |-> TRUE, files |-> WithFile(files, item_path(item.id),
                                          ToJson(item))]
    ELSE [ok |-> FALSE, files |-> files]

\* fs::read_to_string(&path)?, then serde_json::from_str
load_item(files, id) ==
    IF HasFile(files, item_path(id)) /\ Parses(TextAt(files, item_path(id)))
    THEN [ok |-> TRUE, item |-> Some(FromJson(TextAt(files, item_path(id))))]
    ELSE [ok |-> FALSE, item |-> None]

\* self.item_path(id).exists()
item_exists(files, id) == HasFile(files, item_path(id))

\* A variant of delete_item that reports Ok without removing the file.
delete_item_keeps(files, id, removeOk) == [ok |-> TRUE, files |-> files]

\* if path.exists() { fs::remove_file(&path)? }; Ok(())
delete_item(files, id, removeOk) ==
    IF ~HasFile(files, item_path(id)) THEN [ok |-> TRUE, files |-> files]
    ELSE IF removeOk
    THEN [ok |-> TRUE, files |-> {e \in files : e.path # item_path(id)}]
    ELSE [ok |-> FALSE, files |-> files]

\* The orders in which fs::read_dir can yield the entries.
Orders(S) ==
    {o \in [1..Cardinality(S) -> S] :
        \A i, j \in 1..Cardinality(S) : i # j => o[i] # o[j]}

\* A variant of the insertion below that sorts oldest first.
RECURSIVE InsertOldestFirst(_, _)
InsertOldestFirst(sorted, x) ==
    IF sorted = <<>> THEN <<x>>
    ELSE IF Head(sorted).timestamp <= x.timestamp
    THEN <<Head(sorted)>> \o InsertOldestFirst(Tail(sorted), x)
    ELSE <<x>> \o sorted

\* x goes behind every item that is as new or newer: the sort is stable.
RECURSIVE InsertNewestFirst(_, _)
InsertNewestFirst(sorted, x) ==
    IF sorted = <<>> THEN <<x>>
    ELSE IF Head(sorted).timestamp >= x.timestamp
    THEN <<Head(sorted)>> \o InsertNewestFirst(Tail(sorted), x)
    ELSE <<x>> \o sorted

\* A variant of the sort with the comparison the other way round.
RECURSIVE SortByTimestamp_ascending(_, _)
SortByTimestamp_ascending(items, i) ==
    IF i = 0 THEN <<>>
    ELSE InsertOldestFirst(SortByTimestamp_ascending(items, i - 1), items[i])

\* items.sort_by(|a, b| b.timestamp.cmp(&a.timestamp)), on the first i items
RECURSIVE SortByTimestamp(_, _)
SortByTimestamp(items, i) ==
    IF i = 0 THEN <<>>
    ELSE InsertNewestFirst(SortByTimestamp(items, i - 1), items[i])

\* for entry in fs::read_dir(..) { .. items.push(item) }; the sort; Ok(items)
list_items(files, order) ==
    LET texts == [i \in 1..Len(order) |-> order[i].text]
        parsed == SelectSeq(texts, Parses)
        items == [i \in 1..Len(parsed) |-> FromJson(parsed[i])]
    IN  SortByTimestamp(items, Len(items))

\* items.iter().filter(|i| !i.read).count()
count_unread(files, order) ==
    LET items == list_items(files, order)
    IN  Cardinality({i \in 1..Len(items) : ~items[i].read})

\* The item most recently saved under each id and not deleted since.
NothingSaved == [id \in ItemIds |-> None]

\* The harness calls; the record of a save_item or delete_item call keeps
\* the directory the call found.
SaveItemCall ==
    /\ \E item \in Items, writeOk \in BOOLEAN :
       \E r \in {save_item(inbox.files, item, writeOk)} :
          /\ inbox' = [files |-> r.files,
                       saved |-> IF r.ok
                                 THEN [inbox.saved EXCEPT
                                           ![item.id] = Some(item)]
                                 ELSE inbox.saved]
          /\ lastCall' = [fn |-> "save_item", id |-> item.id, ok |-> r.ok,
                          before |-> inbox.files]
    /\ UNCHANGED <<detectVars, refreshVars, envVars, tuiVars, lastGc, exampleRun, socket,
                   keyVars, createVars, updVars, loop>>

LoadItemCall ==
    /\ \E id \in ItemIds :
       \E r \in {load_item(inbox.files, id)} :
          lastCall' = [fn |-> "load_item", id |-> id, ok |-> r.ok,
                       item |-> r.item]
    /\ UNCHANGED <<detectVars, refreshVars, envVars, tuiVars, lastGc, exampleRun, socket,
                   keyVars, createVars, updVars, loop, inbox>>

DeleteItemCall ==
    /\ \E id \in ItemIds, removeOk \in BOOLEAN :
       \E r \in {delete_item(inbox.files, id, removeOk)} :
          /\ inbox' = [files |-> r.files,
                       saved |-> IF r.ok
                                 THEN [inbox.saved EXCEPT ![id] = None]
                                 ELSE inbox.saved]
          /\ lastCall' = [fn |-> "delete_item", id |-> id, ok |-> r.ok,
                          before |-> inbox.files]
    /\ UNCHANGED <<detectVars, refreshVars, envVars, tuiVars, lastGc, exampleRun, socket,
                   keyVars, createVars, updVars, loop>>

ListItemsCall ==
    /\ \E order \in Orders(inbox.files) :
          lastCall' = [fn |-> "list_items",
                       items |-> list_items(inbox.files, order),
                       unread |-> count_unread(inbox.files, order)]
    /\ UNCHANGED <<detectVars, refreshVars, envVars, tuiVars, lastGc, exampleRun, socket,
                   keyVars, createVars, updVars, loop, inbox>>

\* A file of the directory is truncated or overwritten from outside; what
\* was saved under the ids of that path is lost.
FileDamaged ==
    /\ \E e \in inbox.files :
          /\ e.text # Garbage
          /\ inbox' = [files |-> WithFile(inbox.files, e.path, Garbage),
                       saved |-> [id \in ItemIds |->
                                     IF item_path(id) = e.path THEN None
                                     ELSE inbox.saved[id]]]
    /\ lastCall' = NoCall
    /\ UNCHANGED <<detectVars, refreshVars, envVars, tuiVars, lastGc, exampleRun, socket,
                   keyVars, createVars, updVars, loop>>

\* InboxStorage::new on a fresh base directory.
InitInbox ==
    /\ DetectParked
    /\ hostSessions = {} /\ logFiles = {} /\ store = {}
    /\ pc = "exit"
    /\ notifications_enabled = FALSE
    /\ sessions = <<>>
    /\ prev_status = <<>>
    /\ fired = {}
    /\ lastGc = NoGc
    /\ exampleRun = ExampleOff
    /\ CallsParked
    /\ KeysAtEntry
    /\ now = 0
    /\ last_check_file = None
    /\ just_updated_file = None
    /\ procs = [p \in Procs |-> ProcOff]
    /\ lastUpd = NoUpd
    /\ loop = LoopOff
    /\ inbox = [files |-> {}, saved |-> NothingSaved]
    /\ CreateParked
    /\ RefreshParked

NextInbox ==
    \/ SaveItemCall
    \/ LoadItemCall
    \/ DeleteItemCall
    \/ ListItemsCall
    \/ FileDamaged

SpecInbox == InitInbox /\ [][NextInbox]_vars

----------------------------------------------------------------------------
(* main.rs: unique_session_name; tmux.rs: ensure_pipe, ensure_server,       *)
(* list_sessions, applied to drawn inputs by the registry harness           *)

\* format!("{base}-{counter}"): the text of "-" and the counter.
CounterText == <<"-1", "-2", "-3", "-4", "-5">>

\* while existing.iter().any(|s| s.trim_start_matches(SWARM_PREFIX) == name)
\* { counter += 1; name = format!("{base}-{counter}") }
RECURSIVE unique_loop(_, _, _, _)
unique_loop(base, existing, name, counter) ==
    IF \E i \in 1..Len(existing) :
          trim_start_matches(existing[i], SWARM_PREFIX) = name
    THEN unique_loop(base, existing,
                     Append(base, CounterText[counter + 1]), counter + 1)
    ELSE name

\* `listed` is the result of list_sessions()?.
unique_session_name(base, listed) ==
    IF ~listed.ok THEN [ok |-> FALSE, name |-> <<>>]
    ELSE [ok |-> TRUE, name |-> unique_loop(base, listed.sessions, base, 1)]

\* handle_new: clean_name = name.trim_start_matches(SWARM_PREFIX);
\* session = format!("{SWARM_PREFIX}{clean_name}")
SessionFor(name) == <<SWARM_PREFIX>> \o trim_start_matches(name, SWARM_PREFIX)

\* Base names the harness asks for (slugs of task titles) and the sessions
\* the probed host may list.
Bases ==
    { <<"foo">>, <<"bar">>, <<"foo", "-2">>, <<SWARM_PREFIX, "foo">> }

ProbedNames ==
    { <<SWARM_PREFIX, "foo">>, <<SWARM_PREFIX, "foo", "-2">>,
      <<SWARM_PREFIX, "foo", "-3">>, <<SWARM_PREFIX, "bar">>,
      <<SWARM_PREFIX, "foo", "-2", "-2">> }

\* start_from_task_inner: unique_session_name(&base_name)?
UniqueNameCall ==
    /\ lastCall = NoCall
    /\ \E base \in Bases, live \in SUBSET ProbedNames, spawned \in BOOLEAN :
        LET listed == [ok |-> spawned, sessions |-> SetToSeq(live)]
            r == unique_session_name(base, listed)
        IN  lastCall' = [fn |-> "unique_session_name", base |-> base,
                         existing |-> live, listed |-> spawned,
                         ok |-> r.ok, name |-> r.name]
    /\ UNCHANGED <<sideVars, detectVars, envVars, tuiVars, lastGc, exampleRun, socket,
                   keyVars>>

\* for attempt in 0..3
MaxAttempts == 3

\* A variant of the attach loop that tries once more after the third failure.
RECURSIVE pipe_loop_extra_attempt(_, _)
pipe_loop_extra_attempt(outcomes, attempt) ==
    IF attempt > MaxAttempts
    THEN [ok |-> FALSE, attempts |-> attempt, sleeps |-> attempt - 1]
    ELSE IF outcomes[IF attempt < MaxAttempts THEN attempt + 1 ELSE MaxAttempts]
    THEN [ok |-> TRUE, attempts |-> attempt + 1, sleeps |-> attempt]
    ELSE pipe_loop_extra_attempt(outcomes, attempt + 1)

\* The retry loop of ensure_pipe: `outcomes[i]` is whether the i-th run of
\* pipe-pane would succeed; every attempt but the first sleeps before it.
RECURSIVE pipe_loop(_, _)
pipe_loop(outcomes, attempt) ==
    IF attempt >= MaxAttempts
    THEN [ok |-> FALSE, attempts |-> attempt, sleeps |-> attempt - 1]
    ELSE IF outcomes[attempt + 1]
    THEN [ok |-> TRUE, attempts |-> attempt + 1, sleeps |-> attempt]
    ELSE pipe_loop(outcomes, attempt + 1)

\* ensure_pipe with its attempts counted.  `dirOk`: fs::create_dir_all of
\* the log's parent directory succeeds.
ensure_pipe_attempts(dirOk, outcomes) ==
    IF ~dirOk THEN [ok |-> FALSE, attempts |-> 0, sleeps |-> 0]
    ELSE pipe_loop(outcomes, 0)

AttemptOutcomes == [1..MaxAttempts -> BOOLEAN]

\* handle_new / collect_sessions: ensure_pipe(&session, &log_path)
EnsurePipeCall ==
    /\ lastCall = NoCall
    /\ \E session \in SwarmNames, dirOk \in BOOLEAN,
          outcomes \in AttemptOutcomes :
        \E r \in {ensure_pipe_attempts(dirOk, outcomes)} :
            /\ logFiles' = ensure_pipe(session, r.ok, logFiles)
            /\ lastCall' = [fn |-> "ensure_pipe", session |-> session,
                            dirOk |-> dirOk, outcomes |-> outcomes,
                            ok |-> r.ok, attempts |-> r.attempts,
                            sleeps |-> r.sleeps]
    /\ UNCHANGED <<sideVars, detectVars, hostSessions, store, tuiVars, lastGc,
                   exampleRun, socket, keyVars>>

\* What the host binary answers to `list-sessions`: whether it could be run,
\* its exit code, and whether its stderr contains "no server running".
\* The command succeeds only when the host has a session.
HostAnswers(host) ==
    { [spawned |-> FALSE, code |-> 0, no_server |-> FALSE] }
    \cup (IF host # {}
          THEN { [spawned |-> TRUE, code |-> 0, no_server |-> FALSE] }
          ELSE { [spawned |-> TRUE, code |-> c, no_server |-> ns] :
                    c \in {1, 2}, ns \in BOOLEAN })

\* default_socket_path(): Some(path) when `id -u` answers a uid, else None.
default_socket_path(idOk) ==
    IF idOk THEN Some(<<"/tmp/tmux-", "uid", "/default">>) ELSE None

\* if let Some(socket_path) = default_socket_path() { if socket_path.exists()
\* { let _ = fs::remove_file(&socket_path); } }
remove_stale_socket(idOk, sock) ==
    IF IsSome(default_socket_path(idOk)) /\ sock THEN FALSE ELSE sock

\* A variant of ensure_server that cleans up after every failure of the probe.
ensure_server_any_failure(answer, idOk, sock) ==
    IF ~answer.spawned THEN sock
    ELSE IF answer.code = 0 THEN sock
    ELSE remove_stale_socket(idOk, sock)

\* ensure_server: the socket file after the call (the call returns Ok(())
\* on every path).
ensure_server(answer, idOk, sock) ==
    IF ~answer.spawned THEN sock
    ELSE IF answer.code = 0 THEN sock
    ELSE IF answer.code = 1
    THEN IF ~answer.no_server THEN sock
         ELSE remove_stale_socket(idOk, sock)
    ELSE IF answer.no_server THEN remove_stale_socket(idOk, sock)
         ELSE sock

\* list_sessions(): ensure_server()?, then the listing; the host answers
\* the probe and the listing alike.  The harness calls it again and again.
ListSessionsCall ==
    /\ lastCall.fn \in {"none", "list_sessions"}
    /\ \E answer \in HostAnswers(hostSessions), idOk \in BOOLEAN :
        \E sock \in {ensure_server(answer, idOk, socket)} :
        \E r \in {list_sessions(answer.spawned,
                                IF answer.code = 0 THEN hostSessions ELSE {})} :
            /\ socket' = sock
            /\ lastCall' = [fn |-> "list_sessions", answer |-> answer,
                            idOk |-> idOk, socketBefore |-> socket,
                            ok |-> r.ok, sessions |-> r.sessions,
                            afterRecovery |->
                                /\ lastCall.fn = "list_sessions"
                                /\ lastCall.socketBefore
                                /\ ~socket]
    /\ UNCHANGED <<sideVars, detectVars, envVars, tuiVars, lastGc, exampleRun, keyVars>>

\* collect_sessions: the time of the last output of a session, as an age,
\* from what the log file and the host report.
LastOutputCall ==
    /\ lastCall = NoCall
    /\ \E hasLog \in BOOLEAN, o \in Observations :
          lastCall' = [fn |-> "last_output",
                       log_age |-> IF hasLog THEN Some(o.log_age) ELSE None,
                       pane_age |-> o.pane_age,
                       age |-> OutputAge(hasLog, o)]
    /\ UNCHANGED <<sideVars, detectVars, envVars, tuiVars, lastGc, exampleRun,
                   socket, keyVars>>

\* Text of a marker file: a sequence of tokens, of which " " and "\n" are
\* white space.
WhiteSpace == {" ", "\n"}

RECURSIVE trim_start(_)
trim_start(text) ==
    IF text # <<>> /\ Head(text) \in WhiteSpace THEN trim_start(Tail(text))
    ELSE text

RECURSIVE trim_end(_)
trim_end(text) ==
    IF text # <<>> /\ text[Len(text)] \in WhiteSpace
    THEN trim_end(SubSeq(text, 1, Len(text) - 1))
    ELSE text

\* str::trim
trim(text) == trim_end(trim_start(text))

\* build_task_info: the task reference is the path; the title is read from
\* the task file and plays no part in the lookup.
build_task_info(task_path) == [path |-> task_path]

\* read_task_info_from_marker: `content` is what fs::read_to_string gives,
\* None when the file cannot be read.
read_task_info_from_marker(content) ==
    IF ~IsSome(content) THEN None
    ELSE IF trim(Unwrap(content)) = <<>> THEN None
    ELSE Some(build_task_info(trim(Unwrap(content))))

\* task_info_from_session_store: `storeOk` is whether session_task_path can
\* create the session's directory, `storeTask` the content of its `task`
\* file, None when there is no such file.
task_info_from_session_store(storeOk, storeTask) ==
    IF ~storeOk THEN [ok |-> FALSE, info |-> None]
    ELSE [ok |-> TRUE, info |-> read_task_info_from_marker(storeTask)]

\* What the host answers to session_path: the command cannot be run, or it
\* answers no directory, or the session's working directory.
PathAnswers ==
    { [spawned |-> FALSE, path |-> None],
      [spawned |-> TRUE, path |-> None],
      [spawned |-> TRUE, path |-> Some(<<"/work">>)] }

\* A variant of the lookup that asks the working directory first.
task_info_for_session_marker_first(storeOk, storeTask, answer, markerTask) ==
    LET stored == task_info_from_session_store(storeOk, storeTask)
        marked == read_task_info_from_marker(markerTask)
    IN  IF ~answer.spawned
        THEN [ok |-> FALSE, info |-> None, consulted |-> FALSE]
        ELSE IF IsSome(answer.path) /\ IsSome(marked)
        THEN [ok |-> TRUE, info |-> marked, consulted |-> TRUE]
        ELSE [ok |-> stored.ok, info |-> stored.info, consulted |-> TRUE]

\* task_info_for_session.  `markerTask` is the content of ".swarm-task" in
\* the working directory, None when there is no such file; `consulted` is
\* whether the lookup got as far as asking the host for that directory.
task_info_for_session(storeOk, storeTask, answer, markerTask) ==
    LET stored == task_info_from_session_store(storeOk, storeTask)
    IN  IF ~stored.ok
        THEN [ok |-> FALSE, info |-> None, consulted |-> FALSE]
        ELSE IF IsSome(stored.info)
        THEN [ok |-> TRUE, info |-> stored.info, consulted |-> FALSE]
        ELSE IF ~answer.spawned
        THEN [ok |-> FALSE, info |-> None, consulted |-> TRUE]
        ELSE IF ~IsSome(answer.path)
        THEN [ok |-> TRUE, info |-> None, consulted |-> TRUE]
        ELSE [ok |-> TRUE, info |-> read_task_info_from_marker(markerTask),
              consulted |-> TRUE]

\* The contents a task marker can have: no file, an empty file, a file of
\* white space, a task path with or without a trailing newline.
MarkerContents ==
    { None, Some(<<>>), Some(<<"\n">>), Some(<<"tasks/a.md", "\n">>),
      Some(<<" ", "tasks/b.md">>) }

\* collect_sessions: task_info_for_session(&session)
TaskInfoCall ==
    /\ lastCall = NoCall
    /\ \E storeOk \in BOOLEAN, storeTask \in MarkerContents,
          answer \in PathAnswers, markerTask \in MarkerContents :
        \E r \in {task_info_for_session(storeOk, storeTask, answer,
                                        markerTask)} :
            lastCall' = [fn |-> "task_info_for_session",
                         storeOk |-> storeOk, storeTask |-> storeTask,
                         answer |-> answer, markerTask |-> markerTask,
                         ok |-> r.ok, info |-> r.info,
                         consulted |-> r.consulted]
    /\ UNCHANGED <<sideVars, detectVars, envVars, tuiVars, lastGc, exampleRun,
                   socket, keyVars>>

\* A host server dies and leaves its socket file behind, or a server starts.
HostCrashes ==
    /\ hostSessions # {}
    /\ hostSessions' = {}
    /\ socket' \in BOOLEAN
    /\ lastCall' = NoCall
    /\ UNCHANGED <<sideVars, detectVars, logFiles, store, tuiVars, lastGc, exampleRun,
                   keyVars>>

\* The state the registry harness starts in: any sessions on the host, any
\* session logs, a socket file or none; no TUI running.
InitCalls ==
    /\ DetectParked
    /\ hostSessions \in {{}} \cup {ForeignNames \cup S : S \in SUBSET SwarmNames}
    /\ logFiles \in {SessionLogFiles(L) : L \in SUBSET SwarmNames}
    /\ store = {}
    /\ pc = "exit"
    /\ notifications_enabled = FALSE
    /\ sessions = <<>>
    /\ prev_status = <<>>
    /\ fired = {}
    /\ lastGc = NoGc
    /\ exampleRun = ExampleOff
    /\ socket \in BOOLEAN
    /\ lastCall = NoCall
    /\ KeysAtEntry
    /\ SideParked

NextCalls ==
    \/ UniqueNameCall
    \/ EnsurePipeCall
    \/ ListSessionsCall
    \/ LastOutputCall
    \/ TaskInfoCall
    \/ HostCrashes

SpecCalls == InitCalls /\ [][NextCalls]_vars

\* ensure_server in its two steps, next to the processes that start a host
\* server.  First the probe: `list-sessions` is run and answers.
EnsureServerProbes ==
    /\ lastCall = NoCall
    /\ \E answer \in HostAnswers(hostSessions), idOk \in BOOLEAN :
          lastCall' = [fn |-> "ensure_server", at |-> "probed",
                       answer |-> answer, idOk |-> idOk,
                       removedLive |-> FALSE]
    /\ UNCHANGED <<sideVars, detectVars, envVars, tuiVars, lastGc, exampleRun,
                   socket, keyVars>>

\* Then the match on the answer: default_socket_path(), socket_path.exists()
\* and fs::remove_file act on the socket file as it is by now.
EnsureServerCleans ==
    /\ lastCall.fn = "ensure_server" /\ lastCall.at = "probed"
    /\ socket' = ensure_server(lastCall.answer, lastCall.idOk, socket)
    /\ lastCall' = [lastCall EXCEPT
                       !.at = "returned",
                       !.removedLive = socket /\ ~socket' /\ hostSessions # {}]
    /\ UNCHANGED <<sideVars, detectVars, envVars, tuiVars, lastGc, exampleRun,
                   keyVars>>

\* Another process starts a session on a host without a server
\* (start_session_with_options: `new-session -d`): the server starts and
\* binds the default socket.
ServerStarts ==
    /\ hostSessions = {}
    /\ \E n \in SwarmNames : hostSessions' = {n}
    /\ socket' = TRUE
    /\ UNCHANGED <<sideVars, detectVars, logFiles, store, tuiVars, lastGc,
                   exampleRun, lastCall, keyVars>>

NextRecovery ==
    \/ EnsureServerProbes
    \/ EnsureServerCleans
    \/ ServerStarts
    \/ HostCrashes

SpecRecovery == InitCalls /\ [][NextRecovery]_vars

----------------------------------------------------------------------------
(* main.rs: handle_new step by step, with the content of the session store  *)
(* and of the logs                                                          *)

\* Bound: the lines a log holds.
MaxLogLines == 1

\* A directory of the session store with no file in it.
EmptyRecord == [agent |-> None, task |-> None, yolo |-> FALSE]

\* The calls of handle_new: a session with a task, run by codex with
\* auto_accept; sessions of the same and of another name, run by claude
\* with no task and without auto_accept.
NewCalls ==
    { [name |-> StemNames[1], agent |-> "codex",
       task |-> Some(<<"tasks/a.md">>), auto_accept |-> TRUE],
      [name |-> StemNames[1], agent |-> "claude", task |-> None,
       auto_accept |-> FALSE],
      [name |-> StemNames[2], agent |-> "claude", task |-> None,
       auto_accept |-> FALSE] }

\* The content of the session store after a pass that left the entries
\* `entries`: what cleanup_orphans removed is gone (fs::remove_dir_all), what
\* the lookups of the pass created is empty (fs::create_dir_all).
MetaAfterPass(m, entries) ==
    [n \in entries |-> IF n \in DOMAIN m THEN m[n] ELSE EmptyRecord]

\* The content of the logs after a pass that left the log files `logs`: an
\* attach creates an empty file where there was none.
LogTextAfterPass(t, logs) ==
    [n \in {x \in SwarmNames : LogFileName(x) \in logs} |->
        IF n \in DOMAIN t THEN t[n] ELSE <<>>]

\* is_yolo_session: the `yolo` file of the session's directory exists.
is_yolo_session(m, session) == session \in DOMAIN m /\ m[session].yolo

\* collect_sessions run by a TUI process of its own: what its pass does to
\* the session store and to the logs directory.  The view and the dispatch
\* of that process are its own memory.
PassByTui ==
    /\ \E env \in PassEnvsOver(hostSessions, QuietObservations) :
        \E r \in {collect_sessions(hostSessions, logFiles, store, env)} :
            /\ logFiles' = r.logs
            /\ store' = r.store
            /\ meta' = MetaAfterPass(meta, r.store)
            /\ logText' = LogTextAfterPass(logText, r.logs)
    /\ lastGc' = NoGc
    /\ lastKey' = NoKey
    /\ UNCHANGED <<updVars, loop, inbox, newProc, hostSessions,
                   tuiVars, detectVars, refreshVars, exampleRun, callVars, selected,
                   showing_tasks, confirm_kill_mode, pending_kill_session,
                   new_agent_mode, send_input_mode, request>>

\* handle_new up to the start of the session: the task, agent and yolo
\* markers are written into the session's directory (fs::write replaces a
\* file; a marker the call does not write is left as it is).  `dirOk`: the
\* directory can be created.  `before` keeps what the store held for the
\* live sessions when the call began, until the session is started.
NewWritesMetadata ==
    /\ newProc.pc \in {"idle", "done", "failed"}
    /\ \E new \in NewCalls, dirOk \in BOOLEAN :
        LET session == SessionFor(<<new.name>>)
            agent == new.agent
            task == new.task
            auto_accept == new.auto_accept
            had == IF session \in DOMAIN meta THEN meta[session]
                   ELSE EmptyRecord
            written == [agent |-> Some(agent),
                        task |-> IF IsSome(task) THEN task ELSE had.task,
                        yolo |-> had.yolo \/ auto_accept]
            call == [session |-> session, agent |-> agent, task |-> task,
                     auto_accept |-> auto_accept,
                     before |-> [n \in hostSessions \cap DOMAIN meta |->
                                    meta[n]]]
        IN  IF dirOk
            THEN /\ meta' = [n \in DOMAIN meta \cup {session} |->
                                IF n = session THEN written ELSE meta[n]]
                 /\ store' = store \cup {session}
                 /\ newProc' = [pc |-> "written", why |-> "none"] @@ call
            ELSE /\ newProc' = [pc |-> "failed", why |-> "store"] @@ call
                 /\ UNCHANGED <<meta, store>>
    /\ lastGc' = NoGc
    /\ lastKey' = NoKey
    /\ UNCHANGED <<updVars, loop, inbox, logText, hostSessions, logFiles,
                   tuiVars, detectVars, refreshVars, exampleRun, callVars, selected,
                   showing_tasks, confirm_kill_mode, pending_kill_session,
                   new_agent_mode, send_input_mode, request>>

\* handle_new: start_session(&session, ...)?.  The host refuses a name that
\* is live, and can refuse for reasons of its own (`created`).  The lines a
\* log of that name holds by now were written by an earlier session.
NewStartsSession ==
    /\ newProc.pc = "written"
    /\ \E created \in BOOLEAN :
        IF created /\ newProc.session \notin hostSessions
        THEN /\ hostSessions' = hostSessions \cup {newProc.session}
             /\ newProc' = [newProc EXCEPT !.pc = "started", !.before = <<>>]
             /\ logText' =
                    [n \in DOMAIN logText |->
                        IF n = newProc.session
                        THEN [i \in 1..Len(logText[n]) |->
                                [logText[n][i] EXCEPT !.earlier = TRUE]]
                        ELSE logText[n]]
        ELSE /\ newProc' = [newProc EXCEPT !.pc = "failed", !.why = "host"]
             /\ UNCHANGED <<hostSessions, logText>>
    /\ lastGc' = NoGc
    /\ lastKey' = NoKey
    /\ UNCHANGED <<updVars, loop, inbox, meta, logFiles, store,
                   tuiVars, detectVars, refreshVars, exampleRun, callVars, selected,
                   showing_tasks, confirm_kill_mode, pending_kill_session,
                   new_agent_mode, send_input_mode, request>>

\* handle_new after the start: sleep, then ensure_pipe, whose failure is
\* only reported; the call returns Ok(()).
NewAttaches ==
    /\ newProc.pc = "started"
    /\ \E attached \in BOOLEAN :
        /\ attached => newProc.session \in hostSessions
        /\ logFiles' = ensure_pipe(newProc.session, attached, logFiles)
        /\ logText' = LogTextAfterPass(logText, logFiles')
    /\ newProc' = [newProc EXCEPT !.pc = "done"]
    /\ lastGc' = NoGc
    /\ lastKey' = NoKey
    /\ UNCHANGED <<updVars, loop, inbox, meta, hostSessions, store,
                   tuiVars, detectVars, refreshVars, exampleRun, callVars, selected,
                   showing_tasks, confirm_kill_mode, pending_kill_session,
                   new_agent_mode, send_input_mode, request>>

\* A live session whose pane is piped to its log writes a line: `cat >>`
\* appends it to the log.
SessionWrites ==
    /\ \E n \in hostSessions \cap DOMAIN logText :
        /\ Len(logText[n]) < MaxLogLines
        /\ logText' = [logText EXCEPT
                          ![n] = Append(@, [text |-> <<DONE_SENTINEL>>,
                                            earlier |-> FALSE])]
    /\ lastGc' = NoGc
    /\ lastKey' = NoKey
    /\ UNCHANGED <<updVars, loop, inbox, meta, newProc, envVars,
                   tuiVars, detectVars, refreshVars, exampleRun, callVars, selected,
                   showing_tasks, confirm_kill_mode, pending_kill_session,
                   new_agent_mode, send_input_mode, request>>

\* A host without swarm sessions, an empty session store and an empty logs
\* directory; no handle_new running yet.
InitCreate ==
    /\ DetectParked
    /\ CallsParked
    /\ KeysAtEntry
    /\ now = 0
    /\ last_check_file = None
    /\ just_updated_file = None
    /\ procs = [p \in Procs |-> ProcOff]
    /\ lastUpd = NoUpd
    /\ loop = LoopOff
    /\ inbox = <<>>
    /\ hostSessions = ForeignNames
    /\ logFiles = {}
    /\ store = {}
    /\ meta = <<>>
    /\ logText = <<>>
    /\ newProc = [pc |-> "idle"]
    /\ RefreshParked
    /\ pc = "exit"
    /\ notifications_enabled = FALSE
    /\ sessions = <<>>
    /\ prev_status = <<>>
    /\ fired = {}
    /\ lastGc = NoGc
    /\ exampleRun = ExampleOff

NextCreate ==
    \/ NewWritesMetadata
    \/ NewStartsSession
    \/ NewAttaches
    \/ SessionWrites
    \/ SessionExits
    \/ PassByTui

SpecCreate == InitCreate /\ [][NextCreate]_vars

----------------------------------------------------------------------------
(* Inputs of the classifier harness *)

\* Lines of terminal output the harness draws windows from, sorted by what
\* the line shows to a reader: the needs-input sentinel, the done sentinel,
\* a prompt, or nothing of the kind.
NeedsSentinelLines ==
    { <<"text", "/swarm:needs_input">>,
      <<"waiting for", "/swarm:needs_input">> }

DoneSentinelLines ==
    { <<"/swarm:done", "text">> }

PromptLines ==
    { <<"text", "[Y/n]">>,
      <<"(y/N)">>,
      <<"Do you want to proceed", "text">>,
      <<"? ", "text">>,
      <<"waiting for", "text", "input">>,
      <<"Enter to select", "Tab/Arrow">> }

PlainLines ==
    { <<>>,
      <<"text">>,
      <<"text", "? ">>,
      <<"input", "waiting for">> }

LineCatalogue ==
    NeedsSentinelLines \cup DoneSentinelLines \cup PromptLines \cup PlainLines

RECURSIVE SeqsUpTo(_, _)
SeqsUpTo(S, n) ==
    IF n = 0 THEN {<<>>}
    ELSE LET shorter == SeqsUpTo(S, n - 1)
         IN  shorter \cup {Append(w, x) : w \in shorter, x \in S}

Windows == SeqsUpTo(LineCatalogue, MaxLines)
AgeOpt == {None} \cup {Some(s) : s \in 0..MaxAge}
Agents == {"claude", "codex"}

TuiParked ==
    /\ hostSessions = {}
    /\ logFiles = {}
    /\ store = {}
    /\ pc = "exit"
    /\ notifications_enabled = FALSE
    /\ sessions = <<>>
    /\ prev_status = <<>>
    /\ fired = {}
    /\ lastGc = NoGc
    /\ exampleRun = ExampleOff
    /\ CallsParked
    /\ KeysAtEntry
    /\ SideParked

InitDetect ==
    /\ lines \in Windows
    /\ age \in AgeOpt
    /\ status = None
    /\ TuiParked

Classify ==
    /\ status = None
    /\ \E agent \in Agents :
        status' = Some(detect_status(lines, detection_for_agent(agent), age))
    /\ UNCHANGED <<sideVars, lines, age, envVars, tuiVars, lastGc, exampleRun, callVars,
                   keyVars>>

NextDetect == Classify

SpecDetect == InitDetect /\ [][NextDetect]_vars

----------------------------------------------------------------------------
(* Classifier claims, checked under SpecDetect *)

Classified == status # None
WindowHas(S) == \E i \in 1..Len(lines) : lines[i] \in S
NoLineSignal == \A i \in 1..Len(lines) : lines[i] \in PlainLines

\* C1: a window holding the needs-input sentinel on any line is classified
\* NeedsInput, whatever the age and whatever else the window holds.
C1_NeedsInputSentinelWins ==
    (Classified /\ WindowHas(NeedsSentinelLines)) => status = Some("NeedsInput")

C1_Witness ==
    /\ Classified
    /\ WindowHas(NeedsSentinelLines)
    /\ WindowHas(DoneSentinelLines)
    /\ age = Some(MaxAge)
    /\ status = Some("NeedsInput")

\* C2: a window holding the done sentinel and no needs-input sentinel is
\* classified Done, whatever the age, even when a prompt pattern matches.
C2_DoneSentinel ==
    (Classified /\ WindowHas(DoneSentinelLines) /\ ~WindowHas(NeedsSentinelLines))
        => status = Some("Done")

C2_Witness ==
    /\ Classified
    /\ WindowHas(DoneSentinelLines)
    /\ WindowHas(PromptLines)
    /\ ~WindowHas(NeedsSentinelLines)
    /\ status = Some("Done")

\* C3: with no sentinel in the window and a prompt on some line, the result
\* is NeedsInput for every age, absent and stale ages included.
C3_PromptMeansNeedsInput ==
    ( /\ Classified
      /\ ~WindowHas(NeedsSentinelLines)
      /\ ~WindowHas(DoneSentinelLines)
      /\ WindowHas(PromptLines) ) => status = Some("NeedsInput")

C3_Witness ==
    /\ Classified
    /\ ~WindowHas(NeedsSentinelLines)
    /\ ~WindowHas(DoneSentinelLines)
    /\ WindowHas(PromptLines)
    /\ age = Some(31)
    /\ status = Some("NeedsInput")

\* C4: with no sentinel, no prompt and an age present, the result is Running
\* exactly when age <= 5s and Idle for every larger age.
C4_AgeFallback ==
    (Classified /\ NoLineSignal /\ IsSome(age)) =>
        /\ (Unwrap(age) <= 5) <=> (status = Some("Running"))
        /\ (Unwrap(age) > 5) <=> (status = Some("Idle"))

C4_Witness ==
    /\ Classified
    /\ NoLineSignal
    /\ Len(lines) > 0
    /\ age = Some(5)
    /\ status = Some("Running")

\* C5: the result is Unknown if and only if the age is absent and no line
\* carries a sentinel or a prompt.
C5_UnknownIffNoSignal ==
    Classified => ((status = Some("Unknown")) <=> (age = None /\ NoLineSignal))

C5_Witness ==
    /\ Classified
    /\ age = None
    /\ NoLineSignal
    /\ Len(lines) > 0
    /\ status = Some("Unknown")

----------------------------------------------------------------------------
(* Dispatcher claims *)

ViewHas(view, st) == \E i \in 1..Len(view) : view[i].status = st

\* C6: the first pass of the TUI fires no alert whatever statuses it sees;
\* its statuses only become the last-observed-status map.
C6_BaselineIsSilent ==
    (lastGc.by = "Startup" /\ pc = "loop") =>
        /\ fired = {}
        /\ DOMAIN prev_status = {sessions[i].session_name : i \in 1..Len(sessions)}
        /\ \A i \in 1..Len(sessions) :
              prev_status[sessions[i].session_name] = sessions[i].status

C6_Witness ==
    /\ lastGc.by = "Startup"
    /\ pc = "loop"
    /\ ViewHas(sessions, "NeedsInput")
    /\ ViewHas(sessions, "Done")

\* A step of the periodic pass in which the dispatcher ran.
DispatchedTick ==
    /\ notifications_enabled
    /\ lastGc'.by = "Tick"
    /\ lastGc'.ok

WasStatus(n, st) == n \in DOMAIN prev_status /\ prev_status[n] = st

\* C7: on every tick after the baseline and for every session of the pass,
\* the needs-input alert fires exactly when the status is NeedsInput and the
\* last observed one was not, the done alert exactly when the status is Done
\* and the last observed one was not, nothing else fires, and the status seen
\* becomes the last observed one; for the statuses Running, NeedsInput,
\* NeedsInput, Done of one session exactly two alerts fire.
C7_TickRule ==
    DispatchedTick =>
        /\ \A i \in 1..Len(sessions') :
            LET n == sessions'[i].session_name
                st == sessions'[i].status
            IN  /\ (Alert(n, "needs_input") \in fired')
                      <=> (st = "NeedsInput" /\ ~WasStatus(n, "NeedsInput"))
                /\ (Alert(n, "done") \in fired')
                      <=> (st = "Done" /\ ~WasStatus(n, "Done"))
                /\ n \in DOMAIN prev_status' /\ prev_status'[n] = st
        /\ \A al \in fired' :
            \E i \in 1..Len(sessions') :
                /\ al = Alert(sessions'[i].session_name, al.kind)
                /\ al.kind \in {"needs_input", "done"}

C7_ExampleCount ==
    exampleRun.pos = Len(ExampleStatuses) => exampleRun.alerts = 2

C7_EdgeTriggered == [][C7_TickRule]_vars /\ []C7_ExampleCount

C7_Witness ==
    /\ exampleRun.pos = Len(ExampleStatuses)
    /\ exampleRun.alerts = 2
    /\ lastGc.by = "Tick"
    /\ fired = {Alert(Watched, "done")}

----------------------------------------------------------------------------
(* Garbage collection claims *)

SessionLogs(S) == {LogFileName(n) : n \in S}
LiveSwarm == hostSessions \cap SwarmNames

\* C8: a pass that follows a pass over the same live list, with no other
\* actor in between, deletes no log file and no session-store entry.
C8_GcIdempotent ==
    lastGc.repeat => (lastGc.delLogs = {} /\ lastGc.delStore = {})

C8_Witness ==
    /\ lastGc.repeat
    /\ lastGc.afterDeletion
    /\ lastGc.active # <<>>

HasRecord(n) == n \in store \/ LogFileName(n) \in logFiles
Orphaned(n) == n \notin hostSessions /\ HasRecord(n)

\* C10: the records of a session that is gone from the host are deleted by
\* the next pass that reaches the host; while passes keep running, every
\* orphaned record is eventually deleted (or its session is alive again).
C10_NextPassReaps ==
    \A n \in SwarmNames :
        (n \notin hostSessions /\ lastGc'.listed /\ lastGc'.by # "none")
            => ~HasRecord(n)'

C10_OrphansReaped ==
    /\ [][C10_NextPassReaps]_vars
    /\ \A n \in SwarmNames :
        Orphaned(n) ~> (~HasRecord(n) \/ n \in hostSessions)

C10_Witness ==
    /\ lastGc.by = "Tick"
    /\ lastGc.listed
    /\ \E n \in DOMAIN prev_status :
          /\ n \notin hostSessions
          /\ n \in lastGc.delStore
          /\ LogFileName(n) \in lastGc.delLogs
          /\ ~HasRecord(n)

----------------------------------------------------------------------------
(* Registry claims, checked under SpecCalls *)

Called(fn) == lastCall.fn = fn

\* The names, prefix stripped, of the sessions the call probed.
LiveNames == {trim_start_matches(n, SWARM_PREFIX) : n \in lastCall.existing}

\* C11: unique_session_name returns base when no live session has that
\* name (prefix stripped), else base-k for the smallest k >= 2 that is not
\* a live name, and the name returned is never the name of a session of
\* the list it probed.
C11_UniqueName ==
    (Called("unique_session_name") /\ lastCall.ok) =>
        /\ lastCall.base \notin LiveNames => lastCall.name = lastCall.base
        /\ lastCall.base \in LiveNames =>
              \E k \in 2..Len(CounterText) :
                  /\ lastCall.name = Append(lastCall.base, CounterText[k])
                  /\ lastCall.name \notin LiveNames
                  /\ \A j \in 2..(k - 1) :
                        Append(lastCall.base, CounterText[j]) \in LiveNames
        /\ lastCall.name \notin lastCall.existing

\* The first attempt that would succeed, 0 when none would.
FirstSuccess(outcomes) ==
    IF \E i \in 1..MaxAttempts : outcomes[i]
    THEN CHOOSE i \in 1..MaxAttempts :
            outcomes[i] /\ \A j \in 1..(i - 1) : ~outcomes[j]
    ELSE 0

\* C12 as stated: ensure_pipe makes at most 3 attempts, returns success at
\* the first attempt that succeeds and makes no attempt after it, and
\* returns an error only after 3 failed attempts.
C12_ErrorOnlyAfterThree ==
    Called("ensure_pipe") =>
        /\ lastCall.attempts <= MaxAttempts
        /\ lastCall.ok =>
              /\ FirstSuccess(lastCall.outcomes) # 0
              /\ lastCall.attempts = FirstSuccess(lastCall.outcomes)
        /\ ~lastCall.ok =>
              /\ lastCall.attempts = MaxAttempts
              /\ FirstSuccess(lastCall.outcomes) = 0

\* C12: ensure_pipe makes at most 3 attempts, returns success at the first
\* attempt that succeeds and makes no attempt after it; it returns an error
\* after 3 failed attempts, or before any attempt when the directory of
\* the log cannot be created.
C12_AttachAttempts ==
    Called("ensure_pipe") =>
        /\ lastCall.attempts <= MaxAttempts
        /\ lastCall.ok =>
              /\ lastCall.dirOk
              /\ FirstSuccess(lastCall.outcomes) # 0
              /\ lastCall.attempts = FirstSuccess(lastCall.outcomes)
              /\ LogFileName(lastCall.session) \in logFiles
        /\ ~lastCall.ok =>
              \/ /\ lastCall.dirOk
                 /\ lastCall.attempts = MaxAttempts
                 /\ FirstSuccess(lastCall.outcomes) = 0
              \/ /\ ~lastCall.dirOk
                 /\ lastCall.attempts = 0

C12_Witness ==
    /\ Called("ensure_pipe")
    /\ lastCall.outcomes = [i \in 1..MaxAttempts |-> i = MaxAttempts]
    /\ lastCall.ok
    /\ lastCall.attempts = MaxAttempts

\* The host answered with the stale-coordinator signature.
StaleSignature ==
    /\ lastCall.answer.spawned
    /\ lastCall.answer.code # 0
    /\ lastCall.answer.no_server

----------------------------------------------------------------------------
(* Claims on failures during a pass, checked under SpecNotify *)

\* The latest pass was run by the TUI and returned a view.
PassReturnedView == lastGc.by \in {"Startup", "Tick"} /\ lastGc.ok

\* The attach of a session of the latest pass failed: the pass ended
\* without a log file for it.
AttachFailed(n) == LogFileName(n) \notin logFiles

\* C13: a live session whose attach failed is in the view of the pass with
\* a status of the classifier (from the pane's last use, as no log can be
\* read), and so is every other live session of the pass.
C13_AttachFailureIsolated ==
    PassReturnedView =>
        /\ Len(sessions) = Len(lastGc.active)
        /\ \A i \in 1..Len(sessions) :
              /\ sessions[i].session_name = lastGc.active[i]
              /\ sessions[i].status \in AgentStatus
              /\ AttachFailed(sessions[i].session_name) =>
                    sessions[i].status \in {"Running", "Idle", "Unknown"}

C13_Witness ==
    /\ PassReturnedView
    /\ Len(sessions) = Cardinality(SwarmNames)
    /\ \E i, j \in 1..Len(sessions) :
          /\ AttachFailed(sessions[i].session_name)
          /\ ~AttachFailed(sessions[j].session_name)

\* The view marks a session degraded: AgentSession has no field for it,
\* the warning the view can show comes from pipe_status.
IsDegraded(entry) == entry.session_name \in DOMAIN pipe_status

\* C14: the view entry of a session whose attach failed during the pass is
\* marked degraded.
C14_AttachFailureMarked ==
    PassReturnedView =>
        \A i \in 1..Len(sessions) :
            AttachFailed(sessions[i].session_name) => IsDegraded(sessions[i])

\* A step of a pass whose listing could not be run.
ListingFailedStep ==
    /\ lastGc'.by \in {"Startup", "Tick"}
    /\ ~lastGc'.listed
    /\ lastGc' # lastGc

\* C18: when the host binary cannot be run, the pass returns an error, gives
\* no view (the TUI keeps the one it had, or exits at startup) and deletes
\* no log and no session-store entry.
C18_StepAborts ==
    ListingFailedStep =>
        /\ ~lastGc'.ok
        /\ lastGc'.delLogs = {} /\ lastGc'.delStore = {}
        /\ UNCHANGED <<logFiles, store, sessions, prev_status>>
        /\ lastGc'.by = "Startup" => pc' = "exit"

C18_HostUnavailableAborts == [][C18_StepAborts]_vars

C18_Witness ==
    /\ lastGc.by = "Tick"
    /\ ~lastGc.listed
    /\ \E n \in SwarmNames : n \notin hostSessions /\ n \in store
    /\ \E n \in SwarmNames :
          n \notin hostSessions /\ LogFileName(n) \in logFiles
    /\ sessions # <<>>

\* C20: a missing or unreadable record of a session in the session store
\* never makes collect_sessions return an error.
C20_MetadataNeverFails ==
    (lastGc.listed /\ lastGc.unreadable # {}) => lastGc.ok

\* C21: every failure that concerns one session only (attach, log read,
\* introspection, metadata or task lookup) is isolated: a pass whose
\* listing succeeded returns a view with an entry for every live session.
C21_PerSessionFailuresIsolated ==
    (lastGc.by \in {"Startup", "Tick"} /\ lastGc.listed)
        => /\ lastGc.ok
           /\ Len(sessions) = Len(lastGc.active)
           /\ \A i \in 1..Len(sessions) :
                 sessions[i].session_name = lastGc.active[i]

FreshestAge(a, b) ==
    IF IsSome(a) /\ IsSome(b) THEN Some(Min(Unwrap(a), Unwrap(b)))
    ELSE IF IsSome(a) THEN a
    ELSE b

\* C30: the age used for classification is that of the freshest of the log
\* file's last-modified time and the pane's last-active time, of the only
\* one available otherwise, and absent when neither is available.
C30_AgeIsFreshest ==
    Called("last_output")
        => lastCall.age = FreshestAge(lastCall.log_age, lastCall.pane_age)

\* The task reference a marker's content yields: its text without the white
\* space around it, when that is not empty.
Reference(content) ==
    IF IsSome(content) /\ trim(Unwrap(content)) # <<>>
    THEN Some(trim(Unwrap(content))) ELSE None

\* C31: in the lookup of a session's task the first hit wins: a non-empty
\* reference in the metadata store is used and the working directory is not
\* consulted; otherwise the ".swarm-task" marker of the working directory is
\* used; when neither yields a reference the session has no task.
C31_FirstHitWins ==
    (Called("task_info_for_session") /\ lastCall.ok)
        => LET stored == Reference(lastCall.storeTask)
               marked == IF IsSome(lastCall.answer.path)
                         THEN Reference(lastCall.markerTask) ELSE None
           IN  IF IsSome(stored)
               THEN /\ lastCall.info = Some([path |-> Unwrap(stored)])
                    /\ ~lastCall.consulted
               ELSE IF IsSome(marked)
               THEN lastCall.info = Some([path |-> Unwrap(marked)])
               ELSE lastCall.info = None

\* The store and the working directory hold different references, and the
\* lookup answered the store's.
C31_Witness ==
    /\ Called("task_info_for_session") /\ lastCall.ok
    /\ IsSome(Reference(lastCall.storeTask))
    /\ IsSome(lastCall.answer.path)
    /\ IsSome(Reference(lastCall.markerTask))
    /\ Reference(lastCall.markerTask) # Reference(lastCall.storeTask)
    /\ lastCall.info = Some([path |-> Unwrap(Reference(lastCall.storeTask))])

\* C32: a pass never deletes the log or the metadata of a session that is
\* alive on the host, also when the host's listing exits with a failure
\* status while sessions are alive.
C32_LiveNeverReaped ==
    lastGc.by \in {"Startup", "Tick"}
        => \A n \in hostSessions \cap SwarmNames :
              /\ LogFileName(n) \notin lastGc.delLogs
              /\ n \notin lastGc.delStore

\* C37: the last observed status of a session name does not outlive the
\* session.  A periodic pass whose view holds, in NeedsInput or in Done, a
\* session that the view before it did not hold (it is new, whatever was
\* observed of an earlier session of that name) fires the alert for it.
C37_AlertForNewSession ==
    [][(lastGc'.by = "Tick" /\ lastGc'.ok /\ notifications_enabled)
          => \A i \in 1..Len(sessions') :
                LET name == sessions'[i].session_name
                    new_status == sessions'[i].status
                IN  ~InView(sessions, name)
                      => /\ new_status = "NeedsInput"
                            => Alert(name, "needs_input") \in fired'
                         /\ new_status = "Done"
                            => Alert(name, "done") \in fired']_vars

\* C36: the recovery from a stale socket never removes the socket of a live
\* host, also when a server starts between the probe and the removal.
C36_LiveSocketKept ==
    (Called("ensure_server") /\ lastCall.at = "returned")
        => ~lastCall.removedLive

----------------------------------------------------------------------------
(* Claims about the creation of a session, checked under SpecCreate         *)

\* The store holds for the session what the running handle_new wrote.
MetadataPresent ==
    /\ newProc.session \in DOMAIN meta
    /\ meta[newProc.session].agent = Some(newProc.agent)
    /\ IsSome(newProc.task) => meta[newProc.session].task = newProc.task
    /\ newProc.auto_accept => meta[newProc.session].yolo

\* C33: the metadata handle_new wrote for a session is present from the
\* writes until the session is on the host and reconciled; no pass of
\* another process in between deletes it.
C33_MetadataSurvivesCreation ==
    (\/ newProc.pc = "written"
     \/ newProc.pc = "started" /\ newProc.session \in hostSessions)
        => MetadataPresent

\* C34: when handle_new fails because the host refuses to create the
\* session, the stored metadata of every live session, the one with the
\* colliding name included, is what it was before the call.
C34_FailedCreationChangesNothing ==
    (newProc.pc = "failed" /\ newProc.why = "host")
        => \A n \in hostSessions \cap DOMAIN newProc.before :
              n \in DOMAIN meta /\ meta[n] = newProc.before[n]

\* C35: after handle_new succeeded with auto_accept false and no task, the
\* session's yolo flag reads false, the store holds no task for it, and its
\* log holds no line written by an earlier session of the same name.
C35_NothingInherited ==
    (/\ newProc.pc = "done"
     /\ ~newProc.auto_accept
     /\ ~IsSome(newProc.task)
     /\ newProc.session \in hostSessions)
        => /\ ~is_yolo_session(meta, newProc.session)
           /\ newProc.session \in DOMAIN meta
                => ~IsSome(Reference(meta[newProc.session].task))
           /\ newProc.session \in DOMAIN logText
                => \A i \in 1..Len(logText[newProc.session]) :
                      ~logText[newProc.session][i].earlier

----------------------------------------------------------------------------
(* Claims about the kill of a session from the TUI                          *)

KillIssued == lastKey.key = "y" /\ IsSome(lastKey.killed)

\* C15: killing a session that the host has already terminated is treated
\* as success, and the kill handling still removes the session's metadata
\* and log.
C15_KillIdempotent ==
    (KillIssued /\ lastKey.gone)
        => /\ lastKey.ok
           /\ Unwrap(lastKey.killed) \notin store
           /\ LogFileName(Unwrap(lastKey.killed)) \notin logFiles

\* C16: after a confirmed kill for which mark_done returned Ok, the
\* session's entry in the session store and its log are gone, and mark_done
\* removed nothing of any other session.
C16_KillRemovesOnlyTarget ==
    (KillIssued /\ lastKey.ok)
        => /\ Unwrap(lastKey.killed) \notin store
           /\ LogFileName(Unwrap(lastKey.killed)) \notin logFiles
           /\ lastKey.delStore \subseteq {Unwrap(lastKey.killed)}
           /\ lastKey.delLogs \subseteq {LogFileName(Unwrap(lastKey.killed))}

\* A kill succeeded, removed both records of its session, and another
\* session still has its own.
C16_Witness ==
    /\ KillIssued /\ lastKey.ok
    /\ lastKey.delStore = {Unwrap(lastKey.killed)}
    /\ lastKey.delLogs = {LogFileName(Unwrap(lastKey.killed))}
    /\ \E n \in SwarmNames \ {Unwrap(lastKey.killed)} :
            n \in store /\ LogFileName(n) \in logFiles

\* C17: the host kill call is issued only for the session of a kill request
\* ('d') that 'y' confirms with no Esc in between; a 'y' without a pending
\* request, or after Esc, kills nothing.
C17_TwoPhaseKill ==
    KillIssued => (lastKey.requested = lastKey.killed /\ ~lastKey.esc)

----------------------------------------------------------------------------
(* Claims about the modes and the selection of the TUI, checked under       *)
(* SpecModes                                                                *)

\* C39: after every iteration of the main loop, whatever refreshes,
\* creations, kills and navigation keys came before, a view that is not
\* empty has a valid selection: selected < sessions.len().
C39_SelectionValid ==
    (pc = "loop" /\ Len(sessions) > 0) => selected < Len(sessions)

\* A creation from the TUI has just put a second session into the view and
\* selected it.
C39_Witness ==
    /\ pc = "loop"
    /\ lastGc.by = "KeyEnter" /\ lastGc.ok
    /\ Len(sessions) = 2
    /\ selected = 1

\* C40: at most one of the kill confirmation, the send-input prompt and
\* the "name your work" prompt is open at any time.
C40_AtMostOneMode ==
    /\ ~(confirm_kill_mode /\ send_input_mode)
    /\ ~(confirm_kill_mode /\ new_agent_mode)
    /\ ~(send_input_mode /\ new_agent_mode)

----------------------------------------------------------------------------
(* Claims about the refresh of the main loop, checked under SpecRefresh     *)

\* The step is a periodic pass of the TUI that failed: of the steps of
\* SpecRefresh only the refresh leaves the clock, the tasks directory and
\* the host alone and records a pass.
FailedTick ==
    /\ pc = "loop"
    /\ now' = now /\ taskFiles' = taskFiles /\ hostSessions' = hostSessions
    /\ lastGc'.by = "Tick" /\ ~lastGc'.ok

\* C38: a periodic pass that fails (collect_sessions returns an error)
\* fires no alert and leaves the session view, prev_status, the selection
\* and the cached preview as they were; of the TUI's state only the task
\* list, reloaded from the tasks directory, and last_refresh, set to the
\* time of the pass, are updated.
C38_FailedPassFrame ==
    [][FailedTick
         => /\ fired' = {}
            /\ UNCHANGED <<sessions, prev_status, selected, cached_preview>>
            /\ UNCHANGED <<pc, showing_tasks, confirm_kill_mode,
                           pending_kill_session, new_agent_mode,
                           send_input_mode>>
            /\ tasks' = load_tasks(taskFiles)
            /\ last_refresh' = now]_vars

\* A pass has just failed with sessions in the view, statuses remembered
\* and a preview cached, and the task list holds a task.
C38_Witness ==
    /\ lastGc.by = "Tick" /\ ~lastGc.ok
    /\ last_refresh = now /\ now > 0
    /\ Len(sessions) > 0
    /\ DOMAIN prev_status # {}
    /\ IsSome(cached_preview)
    /\ tasks # <<>>

----------------------------------------------------------------------------
(* Claims about the background update                                       *)

\* C22: over any sequence of startups, overlapping ones included, no two
\* update checks are started less than 24 hours apart.
C22_OncePerDay == ~lastUpd.tooSoon

\* C23: the just-updated marker is never read by the process that wrote
\* it, and one startup only reads it: the next one, which removes it, so
\* that no later startup sees it.
C23_MarkerConsumedOnce == ~lastUpd.ownRead /\ lastUpd.reads <= 1

\* The update task of process p is created by the step of its startup that
\* passes the gate, by no other step.
SpawnedAtStartup(p) ==
    (procs[p].task # "created" /\ procs'[p].task = "created")
        => (procs[p].pc = "gate" /\ procs[p].task = "none")

\* C24: the update task is spawned at most once per process, at startup,
\* and a turn of the main loop is enabled whatever state the task is in.
C24_UpdateNeverBlocks ==
    /\ [](~lastUpd.respawned)
    /\ [][\A p \in Procs : SpawnedAtStartup(p)]_vars
    /\ [](\A p \in Procs : procs[p].pc = "loop" => ENABLED LoopStep(p))

\* Both processes are in their main loop, one with an update task that has
\* not yet written the last-check marker, one with a task in the middle of
\* its check.
C24_Witness ==
    \E p, q \in Procs :
        /\ procs[p].pc = "loop" /\ procs[p].task = "created"
        /\ procs[q].pc = "loop" /\ procs[q].task = "checking"

----------------------------------------------------------------------------
(* Claims about the main loop                                               *)

\* C25: a turn of the main loop in which the poll interval has elapsed
\* since the last refresh runs the pass, whatever key it handled and in
\* whatever mode.
C25_PassNotPostponed == loop.on => (loop.last.due => loop.last.passed)

----------------------------------------------------------------------------
(* Claims about the inbox storage                                           *)

\* C26: load_item(id) returns the item most recently saved under that id
\* and not deleted since, with that id and content, whatever was saved
\* under other ids in between.
C26_LoadReturnsLastSaved ==
    (Called("load_item") /\ IsSome(inbox.saved[lastCall.id]))
        => /\ lastCall.ok
           /\ Unwrap(lastCall.item).id = lastCall.id
           /\ Unwrap(lastCall.item).content =
                 Unwrap(inbox.saved[lastCall.id]).content

ParsedFiles(files) == {e \in files : Parses(e.text)}

\* C28: list_items returns every stored, parseable item exactly once, from
\* newest to oldest, and count_unread is the number of those that are
\* unread.
C28_ListNewestFirst ==
    Called("list_items")
        => /\ Len(lastCall.items) = Cardinality(ParsedFiles(inbox.files))
           /\ Range(lastCall.items) =
                 {FromJson(e.text) : e \in ParsedFiles(inbox.files)}
           /\ \A i, j \in 1..Len(lastCall.items) :
                 i < j => lastCall.items[i].timestamp
                              >= lastCall.items[j].timestamp
           /\ lastCall.unread =
                 Cardinality({e \in ParsedFiles(inbox.files) :
                                 ~FromJson(e.text).read})

\* A listing of a newer, read item and an older, unread one.
C28_Witness ==
    /\ Called("list_items")
    /\ Len(lastCall.items) = Cardinality(inbox.files)
    /\ Len(lastCall.items) > 1
    /\ lastCall.items[1].timestamp > lastCall.items[Len(lastCall.items)].timestamp
    /\ lastCall.unread = 1

====
